---- MODULE Spec2Model ----
(***************************************************************************)
(* A model of the text-message front end of the elos command:              *)
(*   - command.Session  (Start, run)          src/command/input.go         *)
(*   - command.TextUI   (send, Ask, ...)      src/command/input.go         *)
(*   - command.TodoCommand (Run, init, ...)   src/command/todo.go          *)
(*   - the input helpers (yesNo, intInput...) src/command/input.go         *)
(*                                                                         *)
(* The session goroutine is one sequential process.  Its position is the   *)
(* loop position lpc together with the list rets of the results of the     *)
(* primitive operations (UI sends, UI asks, database calls) the running    *)
(* command has completed so far: a command is a deterministic function of  *)
(* those results, so replaying its code over rets gives the operation it   *)
(* is about to perform.                                                    *)
(***************************************************************************)
EXTENDS Integers, Sequences, FiniteSets, TLC

(***************************************************************************)
(* Bounds of the model                                                     *)
(***************************************************************************)
MaxLines == 4      \* lines the transport puts on the input stream
MaxInCap == 1      \* largest capacity of the input channel
MaxOutCap == 1     \* largest capacity of the output channel
MaxOps == 10       \* operations of one invocation on a closed input stream
MaxSecretLines == 2  \* lines offered to one Ask / AskSecret call
MaxCalls == 4      \* calls of Output, Info, Warn and Error on one TextUI
MaxUiLines == 1    \* lines offered while those calls are made
MaxFeed == 3       \* changes the producer puts on the change feed
MaxSeconds == 11   \* seconds the stream command spends waiting
MaxLineLen == 4    \* characters of a line that is split on its own
MaxTasks == 3      \* tasks of a list from which one is removed
MaxRunOps == 12    \* operations of a TodoCommand whose Run is called directly
MaxTags == 4       \* tags of the user in promptSelectTag on its own
MaxPromptLines == 2  \* lines offered to one validating prompt loop
MaxSends == 3      \* messages of one prompt loop that are counted

(***************************************************************************)
(* The lines the transport may send: two commands, a confirmation (which   *)
(* is no integer and no command) and an integer (which is no confirmation  *)
(* and no command).  Script is the exchange of the todo scenario.          *)
(***************************************************************************)
Lines == {"todo list", "todo new", "y", "1"}

Script == <<"todo list", "todo new", "Buy milk", "n", "n">>

\* The lines of the help scenario: a subcommand that does not exist, no
\* subcommand, and a command.
HelpScript == <<"todo garbage", "todo", "todo list">>

\* The characters of a line ("" is what a closed channel yields).
Chars(l) ==
  CASE l = "todo list" -> <<"t","o","d","o"," ","l","i","s","t">>
    [] l = "todo new"  -> <<"t","o","d","o"," ","n","e","w">>
    [] l = "todo garbage" ->
         <<"t","o","d","o"," ","g","a","r","b","a","g","e">>
    [] l = "todo"      -> <<"t","o","d","o">>
    [] l = "Buy milk"  -> <<"B","u","y"," ","m","i","l","k">>
    [] l = "n"         -> <<"n">>
    [] l = "y"         -> <<"y">>
    [] l = "1"         -> <<"1">>
    [] l = "0"         -> <<"0">>
    [] l = ""          -> <<>>

(***************************************************************************)
(* strings.Split(line, " "): one token per separator plus one, so that     *)
(* consecutive separators give empty tokens.                               *)
(***************************************************************************)
RECURSIVE SplitAcc(_, _, _)
SplitAcc(cs, cur, acc) ==
  IF cs = <<>> THEN Append(acc, cur)
  ELSE IF Head(cs) = " " THEN SplitAcc(Tail(cs), "", Append(acc, cur))
  ELSE SplitAcc(Tail(cs), cur \o Head(cs), acc)

Split(l) == SplitAcc(Chars(l), "", <<>>)

(***************************************************************************)
(* strconv.ParseInt(input, 10, 64): an optional sign and at least one      *)
(* decimal digit.                                                          *)
(***************************************************************************)
Digits == <<"0","1","2","3","4","5","6","7","8","9">>

DigitVal(c) == (CHOOSE i \in 1..10 : Digits[i] = c) - 1

IsDigit(c) == \E i \in 1..10 : Digits[i] = c

RECURSIVE DigitsVal(_, _)
DigitsVal(cs, acc) ==
  IF cs = <<>> THEN acc ELSE DigitsVal(Tail(cs), 10 * acc + DigitVal(Head(cs)))

ParseIntOk(l) ==
  LET cs == Chars(l)
      ds == IF cs # <<>> /\ Head(cs) \in {"+", "-"} THEN Tail(cs) ELSE cs
  IN  ds # <<>> /\ \A i \in 1..Len(ds) : IsDigit(ds[i])

ParseInt(l) ==
  LET cs == Chars(l)
      neg == cs # <<>> /\ Head(cs) = "-"
      ds == IF cs # <<>> /\ Head(cs) \in {"+", "-"} THEN Tail(cs) ELSE cs
  IN  IF neg THEN 0 - DigitsVal(ds, 0) ELSE DigitsVal(ds, 0)

(***************************************************************************)
(* Primitive operations of a command and their results.                    *)
(*   out   a send on the UI (Output, Info, Warn, Error)                    *)
(*   ask   TextUI.Ask                                                      *)
(*   query a database query (tasks or tags)                                *)
(*   save  DB.Save of a task                                               *)
(* err is the Go error, "" standing for nil.                               *)
(***************************************************************************)
NoTask == [name |-> "", deadline |-> "", prereqs |-> {}]

Op(k, s, t) == [k |-> k, s |-> s, t |-> t]

Res(v, err, tasks) == [v |-> v, err |-> err, tasks |-> tasks]

NoRes == Res("", "", <<>>)

TimeoutErr == "TextUI Ask, timeout"

DBErr == "database error"

\* The command performs op: it takes its result from ctx.rets, or, when
\* the results are exhausted, op is the operation the command is blocked in.
Do(ctx, op) ==
  IF ctx.blocked THEN [ctx |-> ctx, r |-> NoRes]
  ELSE IF ctx.rets = <<>>
       THEN [ctx |-> [ctx EXCEPT !.ops = Append(@, op), !.blocked = TRUE],
             r |-> NoRes]
       ELSE [ctx |-> [ctx EXCEPT !.ops = Append(@, op), !.rets = Tail(@)],
             r |-> Head(ctx.rets)]

\* The result r of a call, handed to the code K that follows the call.
Then(r, K(_)) == K(r)

\* A call stops the caller's straight-line code when the replay is blocked
\* inside it or (where the code returns on err != nil) when it failed.
Stop(r) == r.ctx.blocked \/ r.err # ""

(***************************************************************************)
(* cli.Ui as implemented by TextUI: Output, Info, Warn and Error all send. *)
(***************************************************************************)
send(ctx, txt) == Do(ctx, Op("out", txt, NoTask)).ctx

Output(ctx, s) == send(ctx, s)

Info(ctx, s) == send(ctx, s)

Warn(ctx, s) == send(ctx, s)

Error(ctx, s) == send(ctx, s)

UiAsk(ctx, s) ==
  Then(Do(ctx, Op("ask", s, NoTask)), LAMBDA d :
    [ctx |-> d.ctx, v |-> d.r.v, err |-> d.r.err])

(***************************************************************************)
(* The input helpers.                                                      *)
(***************************************************************************)
\* (Variant: any non-empty answer confirms.)
yesNoNonEmpty(ctx, text) ==
  Then(UiAsk(ctx, text \o " [y to confirm]"), LAMBDA a :
    [ctx |-> a.ctx, v |-> (a.v # ""), err |-> a.err])

yesNo(ctx, text) ==
  Then(UiAsk(ctx, text \o " [y to confirm]"), LAMBDA a :
    [ctx |-> a.ctx, v |-> (a.v = "y"), err |-> a.err])

stringInput(ctx, text) == UiAsk(ctx, text \o " [string]:")

InvalidInt ==
  "Invalid input, please try again. Valid integer expressions include: 1, 12, -300 etc."

RECURSIVE intInput(_, _)
intInput(ctx, text) ==
  Then(UiAsk(ctx, text \o " [integer]:"), LAMBDA a :
    IF Stop(a) THEN [ctx |-> a.ctx, v |-> 0, err |-> a.err]
    ELSE IF ParseIntOk(a.v) THEN [ctx |-> a.ctx, v |-> ParseInt(a.v), err |-> ""]
    ELSE Then(Output(a.ctx, InvalidInt), LAMBDA o :
           IF o.blocked THEN [ctx |-> o, v |-> 0, err |-> ""]
           ELSE intInput(o, text)))

\* The value is "" for the zero time, "now" or "date".
dateInput(ctx, text) ==
  Then(yesNo(Output(ctx, text \o " [date]"),
             "Would you like to use the current time?"), LAMBDA u :
    IF Stop(u) THEN [ctx |-> u.ctx, v |-> "", err |-> u.err]
    ELSE IF u.v THEN [ctx |-> u.ctx, v |-> "now", err |-> ""]
    ELSE
  Then(intInput(u.ctx, "Year (e.g., 2016)"), LAMBDA y :
    IF Stop(y) THEN [ctx |-> y.ctx, v |-> "", err |-> y.err] ELSE
  Then(intInput(y.ctx, "Month (e.g., 1 for January)"), LAMBDA mo :
    IF Stop(mo) THEN [ctx |-> mo.ctx, v |-> "", err |-> mo.err] ELSE
  Then(intInput(mo.ctx, "Day [e.g., 1]"), LAMBDA d :
    IF Stop(d) THEN [ctx |-> d.ctx, v |-> "", err |-> d.err] ELSE
  Then(intInput(d.ctx, "Hour [e.g., 13]"), LAMBDA h :
    IF Stop(h) THEN [ctx |-> h.ctx, v |-> "", err |-> h.err] ELSE
  Then(intInput(h.ctx, "Minute [e.g., 59]"), LAMBDA mi :
    IF Stop(mi) THEN [ctx |-> mi.ctx, v |-> "", err |-> mi.err]
    ELSE [ctx |-> mi.ctx, v |-> "date", err |-> ""]))))))

(***************************************************************************)
(* TodoCommand.  ctx.tasks is c.tasks, ctx.user is c.UserID, ctx.db tells  *)
(* whether c.DB is non-nil.  A task is its name, its deadline and the set  *)
(* of names of its prerequisites.                                          *)
(***************************************************************************)
HelpText ==
  "Usage:\n\telos todo <subcommand>\n\nSubcommands:\n\tcomplete\tcomplete a task ..."

errorf(ctx, s) == Error(ctx, "[elos todo] Error: " \o s)

\* One line of printTaskList; the salience number, a function of the
\* current time, is left out of the text.
TaskLine(i, t) ==
  ToString(i) \o ")" \o " " \o t.name \o " "
    \o (IF t.deadline = "" THEN "" ELSE "(" \o t.deadline \o ")")
    \o "\n\tSalience:"

RECURSIVE printFrom(_, _)
printFrom(ctx, i) ==
  IF ctx.blocked \/ i > Len(ctx.tasks) THEN ctx
  ELSE printFrom(Output(ctx, TaskLine(i - 1, ctx.tasks[i])), i + 1)

printTaskList(ctx) == printFrom(ctx, 1)

IncludePrerequisite(task, other) ==
  [task EXCEPT !.prereqs = @ \cup {other.name}]

\* The loop `for currentTaskPrereq { ... }` of promptNewTask.
RECURSIVE currentPrereqs(_, _)
currentPrereqs(ctx, task) ==
  Then(intInput(ctx, "Which number?"), LAMBDA n :
    IF Stop(n) THEN [ctx |-> n.ctx, task |-> task, err |-> n.err]
    ELSE IF n.v < 0 \/ n.v > Len(n.ctx.tasks) - 1
    THEN Then(Warn(n.ctx, "That isn't a valid index"), LAMBDA w :
           IF w.blocked THEN [ctx |-> w, task |-> task, err |-> ""]
           ELSE currentPrereqs(w, task))
    ELSE Then(IncludePrerequisite(task, n.ctx.tasks[n.v + 1]), LAMBDA task1 :
         Then(yesNo(n.ctx, "Any more current prereqs?"), LAMBDA m :
           IF Stop(m) THEN [ctx |-> m.ctx, task |-> task1, err |-> m.err]
           ELSE IF m.v THEN currentPrereqs(m.ctx, task1)
           ELSE [ctx |-> m.ctx, task |-> task1, err |-> ""])))

RECURSIVE promptNewTask(_)
RECURSIVE newPrereqs(_, _)

\* The loop `for newTaskPrereq { ... }` of promptNewTask.
newPrereqs(ctx, task) ==
  Then(promptNewTask(ctx), LAMBDA nt :
    IF Stop(nt) THEN [ctx |-> nt.ctx, task |-> task, err |-> nt.err]
    ELSE Then(IncludePrerequisite(task, nt.task), LAMBDA task1 :
         Then(yesNo(nt.ctx, "Any more new prereqs?"), LAMBDA m :
           IF Stop(m) THEN [ctx |-> m.ctx, task |-> task1, err |-> m.err]
           ELSE IF m.v THEN newPrereqs(m.ctx, task1)
           ELSE [ctx |-> m.ctx, task |-> task1, err |-> ""])))

\* The block `else if hasPrereqs { ... }` of promptNewTask.
prereqBlock(ctx, task) ==
  Then(IF Len(ctx.tasks) > 0
       THEN Then(yesNo(printTaskList(ctx), "Any dependencies that are current?"),
                 LAMBDA c :
              IF Stop(c) THEN [ctx |-> c.ctx, task |-> task, err |-> c.err]
              ELSE IF c.v THEN currentPrereqs(c.ctx, task)
              ELSE [ctx |-> c.ctx, task |-> task, err |-> ""])
       ELSE [ctx |-> ctx, task |-> task, err |-> ""], LAMBDA cur :
    IF Stop(cur) THEN cur
    ELSE Then(yesNo(cur.ctx, "Any dependencies that are new tasks?"), LAMBDA nw :
           IF Stop(nw) THEN [ctx |-> nw.ctx, task |-> cur.task, err |-> nw.err]
           ELSE IF nw.v THEN newPrereqs(nw.ctx, cur.task)
           ELSE [ctx |-> nw.ctx, task |-> cur.task, err |-> ""]))

\* (Variant: the task is appended and announced whatever Save returns.)
saveNewTaskAlways(ctx, task) ==
  Then(Do(ctx, Op("save", "", task)), LAMBDA s :
    IF s.ctx.blocked THEN [ctx |-> s.ctx, task |-> task, err |-> ""]
    ELSE [ctx |-> Output([s.ctx EXCEPT !.tasks = Append(@, task)], "Task created"),
          task |-> task, err |-> s.r.err])

\* The final `if err = c.DB.Save(task); err == nil { ... }` of promptNewTask.
saveNewTask(ctx, task) ==
  Then(Do(ctx, Op("save", "", task)), LAMBDA s :
    IF s.ctx.blocked \/ s.r.err # ""
    THEN [ctx |-> s.ctx, task |-> task, err |-> s.r.err]
    ELSE [ctx |-> Output([s.ctx EXCEPT !.tasks = Append(@, task)], "Task created"),
          task |-> task, err |-> ""])

promptNewTask(ctx) ==
  Then(stringInput(ctx, "Name:"), LAMBDA n :
    IF Stop(n) THEN [ctx |-> n.ctx, task |-> NoTask, err |-> n.err] ELSE
  Then([NoTask EXCEPT !.name = n.v], LAMBDA task1 :
  Then(yesNo(n.ctx, "Does it have a deadline?"), LAMBDA hd :
    IF Stop(hd) THEN [ctx |-> hd.ctx, task |-> task1, err |-> hd.err] ELSE
  Then(IF hd.v THEN dateInput(hd.ctx, "Deadline:")
       ELSE [ctx |-> hd.ctx, v |-> "", err |-> ""], LAMBDA dl :
    IF Stop(dl) THEN [ctx |-> dl.ctx, task |-> task1, err |-> dl.err] ELSE
  Then([task1 EXCEPT !.deadline = dl.v], LAMBDA task2 :
  Then(yesNo(dl.ctx, "Does it have any prerequisites?"), LAMBDA hp :
    IF Stop(hp) THEN [ctx |-> hp.ctx, task |-> task2, err |-> hp.err] ELSE
  Then(IF hp.v THEN prereqBlock(hp.ctx, task2)
       ELSE [ctx |-> hp.ctx, task |-> task2, err |-> ""], LAMBDA pr :
    IF Stop(pr) THEN pr
    ELSE saveNewTask(pr.ctx, pr.task))))))))

success == 0

failure == 1

runNew(ctx) ==
  Then(promptNewTask(ctx), LAMBDA r :
    IF r.ctx.blocked THEN [ctx |-> r.ctx, status |-> failure]
    ELSE IF r.err # ""
    THEN [ctx |-> errorf(r.ctx, "(subcommand  new): Error: " \o r.err),
          status |-> failure]
    ELSE [ctx |-> r.ctx, status |-> success])

runList(ctx) ==
  [ctx |-> printTaskList(Output(ctx, "Todos:")), status |-> success]

\* `c.tasks = append(c.tasks[index:], c.tasks[index+1:]...)`, index counted
\* from 0: the appended elements land behind the end of c.tasks[index:],
\* in the same array or in a new one, so the elements read are the old ones.
removeTask(tasks, index) ==
  SubSeq(tasks, index + 1, Len(tasks)) \o SubSeq(tasks, index + 2, Len(tasks))

\* promptSelectTask: the index chosen, or -1.
promptSelectTask(ctx) ==
  IF Len(ctx.tasks) = 0
  THEN [ctx |-> Warn(ctx, "You do not have any tasks"), index |-> -1]
  ELSE
  Then(intInput(printTaskList(ctx), "Which number?"), LAMBDA n :
    IF n.ctx.blocked THEN [ctx |-> n.ctx, index |-> -1]
    ELSE IF n.err # ""
    THEN [ctx |-> errorf(n.ctx, "input error: " \o n.err), index |-> -1]
    ELSE IF n.v < 0 \/ n.v > Len(n.ctx.tasks) - 1
    THEN [ctx |-> Warn(n.ctx, ToString(n.v)
                         \o " is not a valid index. Need a # in (0,...,"
                         \o ToString(Len(n.ctx.tasks) - 1) \o ")"),
          index |-> -1]
    ELSE [ctx |-> n.ctx, index |-> n.v])

\* runDelete: the exit status of the handler.
runDelete(ctx) ==
  Then(promptSelectTask(ctx), LAMBDA sel :
    IF sel.ctx.blocked \/ sel.index < 0 THEN [ctx |-> sel.ctx, status |-> failure]
    ELSE
  Then(Do(sel.ctx, Op("delete", "", sel.ctx.tasks[sel.index + 1])), LAMBDA d :
    IF d.ctx.blocked THEN [ctx |-> d.ctx, status |-> failure]
    ELSE IF d.r.err # ""
    THEN [ctx |-> errorf(d.ctx, "(subcommand delete) Error: " \o d.r.err),
          status |-> failure]
    ELSE [ctx |-> Info([d.ctx EXCEPT !.tasks = removeTask(@, sel.index)],
                       "Deleted '" \o sel.ctx.tasks[sel.index + 1].name \o "'"),
          status |-> success]))

\* (Variant: the user id is not checked.)
initChecksNoUser(ctx) ==
  IF ~ctx.ui THEN "no ui"
  ELSE IF ~ctx.db THEN "no database"
  ELSE ""

\* The checks at the top of TodoCommand.init: what is found missing first
\* ("": nothing).
initChecks(ctx) ==
  IF ~ctx.ui THEN "no ui"
  ELSE IF ~ctx.db THEN "no database"
  ELSE IF ctx.user = "" THEN "no user id"
  ELSE ""

\* TodoCommand.init: the checks, then the tasks query and the tags query.
init(ctx) ==
  IF initChecks(ctx) = "no ui" THEN [ctx |-> ctx, status |-> failure]
  ELSE IF initChecks(ctx) # ""
  THEN [ctx |-> errorf(ctx, "initialization: " \o initChecks(ctx)),
        status |-> failure]
  ELSE
  Then(Do(ctx, Op("query", "tasks", NoTask)), LAMBDA q :
    IF q.ctx.blocked THEN [ctx |-> q.ctx, status |-> failure]
    ELSE IF q.r.err # ""
    THEN [ctx |-> errorf(q.ctx, "data retrieval: querying tasks"), status |-> failure]
    ELSE
  Then(Do([q.ctx EXCEPT !.tasks = q.r.tasks], Op("query", "tags", NoTask)), LAMBDA g :
    IF g.ctx.blocked THEN [ctx |-> g.ctx, status |-> failure]
    ELSE IF g.r.err # ""
    THEN [ctx |-> errorf(g.ctx, "data retrieval: querying tags"), status |-> failure]
    ELSE [ctx |-> g.ctx, status |-> success]))

\* The subcommand names of the switch in Run whose case has no body (a Go
\* case does not fall through) and the names of the other cases.
Aliases == {"c", "d", "e", "g", "gs", "l", "n", "sta", "sto", "su", "t"}

Subcommands ==
  {"complete", "delete", "edit", "goal", "goals", "list", "new", "start",
   "stop", "suggest", "tag"}

\* (Variant: what is not recognized is an error.)
showHelpFails(ctx) ==
  [ctx |-> errorf(ctx, "unrecognized subcommand"), status |-> failure]

\* `c.UI.Output(c.Help())`, after which Run returns success.
showHelp(ctx) == [ctx |-> Output(ctx, HelpText), status |-> success]

\* TodoCommand.Run.  Of the handlers, runList, runNew and runDelete are
\* modelled.  Only the cases of "complete" and "new" return what their
\* handler returns; after the other handlers Run goes on to `return success`.
Run(ctx, args) ==
  IF Len(args) = 0 /\ ctx.ui THEN [ctx |-> Output(ctx, HelpText), status |-> success]
  ELSE Then(init(ctx), LAMBDA i :
         IF i.ctx.blocked \/ i.status # success THEN i
         ELSE IF Len(args) # 1 THEN showHelp(i.ctx)
         ELSE CASE args[1] = "new" -> runNew(i.ctx)
                [] args[1] = "list" -> [runList(i.ctx) EXCEPT !.status = success]
                [] args[1] = "delete" ->
                     [runDelete(i.ctx) EXCEPT !.status = success]
                [] args[1] \in Aliases -> [ctx |-> i.ctx, status |-> success]
                [] args[1] \notin Aliases \cup Subcommands -> showHelp(i.ctx))

\* The replay over the results rets of one call of Run on a TodoCommand
\* with the fields ui (UI is non-nil), user (UserID) and db (DB is non-nil).
TraceOn(ui, user, db, args, rets) ==
  Run([rets |-> rets, ops |-> <<>>, blocked |-> FALSE, tasks |-> <<>>,
       ui |-> ui, user |-> user, db |-> db], args)

\* The replay of one invocation of the session, whose TextUI is never nil.
Trace(user, db, args, rets) == TraceOn(TRUE, user, db, args, rets)
(***************************************************************************)
(* The state.                                                              *)
(*   user      Session.user: whether it is nil, and its Id                 *)
(*   db        whether Session.db is non-nil                               *)
(*   inCap     capacity of the input channel (made by the transport)       *)
(*   outCap    capacity of the output channel                              *)
(*   sent      the lines the transport has put on (or is blocked sending   *)
(*             on) the input channel, in order, from the line that started *)
(*             the latest invocation on                                    *)
(*   readers   who received each line of sent that was taken off the       *)
(*             channel: "loop" (the range in Start) or "ask" (TextUI.Ask)  *)
(*   nSent     lines the transport has put on the input channel in all     *)
(*   nLoop     lines received by the range loop of Start in all            *)
(*   nAsk      lines received by TextUI.Ask in all                         *)
(*   inClosed  the transport has closed the input channel                  *)
(*   outLog    the messages whose send on the output channel completed,    *)
(*             from those the transport had not yet received when the      *)
(*             latest invocation started on                                *)
(*   outRecvd  how many messages of outLog the transport has received      *)
(*   lpc       position of Session.Start                                   *)
(*   inv       the invocation s.run is in: "none", "cli" (the interpreter  *)
(*             handles the line itself) or "todo" (TodoCommand.Run)        *)
(*   args      the argument vector of the invocation                       *)
(*   rets      results of the operations the TodoCommand has completed     *)
(*   askPhase  position inside TextUI.Ask: "idle", "select" or "tsend"     *)
(*   askLog    history: the Ask calls of the latest invocation, each with  *)
(*             its prompt, the lengths of outLog and readers when it was   *)
(*             called (at, rd) and when it returned (end, rdEnd), how it   *)
(*             ended (how) and what it returned (v, err)                   *)
(*   bailCount calls of s.bail()                                           *)
(*   dbTasks   the user's incomplete tasks in the database                 *)
(*   status    exit status of the last invocation that returned (-1: none) *)
(*   sx        the state of the Ask / AskSecret comparison (SpecSecret)    *)
(*   ux        a TextUI whose Output, Info, Warn and Error are called      *)
(*             (SpecUi)                                                    *)
(*   sc        a StreamCommand, its change feed and its cli.Ui            *)
(*             (SpecStream)                                                *)
(*   tc        a TodoCommand whose Run is called directly (SpecRun)        *)
(*   fx        a call of a function on its own: strings.Split of a line    *)
(*             (SpecSplit) or removeTask on a task list (SpecRemove)       *)
(***************************************************************************)
VARIABLES user, db, inCap, outCap, sent, readers, nSent, nLoop, nAsk,
          inClosed, outLog, outRecvd, lpc, inv, args, rets, askPhase, askLog,
          bailCount, dbTasks, status, sx, ux, sc, tc, fx

vars == <<user, db, inCap, outCap, sent, readers, nSent, nLoop, nAsk,
          inClosed, outLog, outRecvd, lpc, inv, args, rets, askPhase, askLog,
          bailCount, dbTasks, status, sx, ux, sc, tc, fx>>

NilUser == [nil |-> TRUE, Id |-> ""]

Users == {NilUser, [nil |-> FALSE, Id |-> ""], [nil |-> FALSE, Id |-> "u1"]}

OldTask == [name |-> "Old task", deadline |-> "", prereqs |-> {}]

\* The comparison of SpecSecret is not running.
NoSx == [on |-> FALSE]

\* No TextUI of SpecUi and no StreamCommand of SpecStream is running.
NoUx == [on |-> FALSE]

NoSc == [on |-> FALSE]

\* No TodoCommand of SpecRun is running, no function is called on its own.
NoTc == [on |-> FALSE]

NoFx == [on |-> FALSE]

InitSession ==
  /\ inCap \in 0..MaxInCap
  /\ outCap \in 0..MaxOutCap
  /\ sent = <<>>
  /\ readers = <<>>
  /\ nSent = 0
  /\ nLoop = 0
  /\ nAsk = 0
  /\ inClosed = FALSE
  /\ outLog = <<>>
  /\ outRecvd = 0
  /\ lpc = "start"
  /\ inv = "none"
  /\ args = <<>>
  /\ rets = <<>>
  /\ askPhase = "idle"
  /\ askLog = <<>>
  /\ bailCount = 0
  /\ dbTasks \in {<<>>, <<OldTask>>}
  /\ status = -1

Init ==
  /\ user \in Users
  /\ db \in BOOLEAN
  /\ InitSession
  /\ sx = NoSx
  /\ ux = NoUx
  /\ sc = NoSc
  /\ tc = NoTc
  /\ fx = NoFx

(***************************************************************************)
(* Go channels.  A sender blocked in a send holds its value for the next   *)
(* receiver, so a channel of capacity c with one sender is a queue of at   *)
(* most c + 1 values.                                                      *)
(***************************************************************************)
nRead == Len(readers)

InAvail == Len(sent) > nRead

InHead == sent[nRead + 1]

\* (Variant: the receive does not wait for a line.)
InEndedNoWait == ~InAvail

\* A receive on the closed, drained channel returns at once.
InEnded == inClosed /\ ~InAvail

\* A send on the output channel can complete: there is room in the buffer,
\* or the channel is unbuffered and the transport receives in the same step.
CanSend == outCap = 0 \/ Len(outLog) - outRecvd < outCap

SendOut(msg) ==
  /\ outLog' = Append(outLog, msg)
  /\ outRecvd' = IF outCap = 0 THEN outRecvd + 1 ELSE outRecvd

(***************************************************************************)
(* The transport.                                                          *)
(***************************************************************************)
TransportSend(l) ==
  /\ ~inClosed
  /\ nSent < MaxLines
  /\ Len(sent) - nRead <= inCap
  /\ sent' = Append(sent, l)
  /\ nSent' = nSent + 1
  /\ UNCHANGED <<user, db, inCap, outCap, readers, nLoop, nAsk, inClosed,
                 outLog, outRecvd, lpc, inv, args, rets, askPhase, askLog,
                 bailCount, dbTasks, status, sx, ux, sc, tc, fx>>

TransportClose ==
  /\ ~inClosed
  /\ Len(sent) - nRead <= inCap
  /\ inClosed' = TRUE
  /\ UNCHANGED <<user, db, inCap, outCap, sent, readers, nSent, nLoop, nAsk,
                 outLog, outRecvd, lpc, inv, args, rets, askPhase, askLog,
                 bailCount, dbTasks, status, sx, ux, sc, tc, fx>>

TransportRecv ==
  /\ outRecvd < Len(outLog)
  /\ outRecvd' = outRecvd + 1
  /\ UNCHANGED <<user, db, inCap, outCap, sent, readers, nSent, nLoop, nAsk,
                 inClosed, outLog, lpc, inv, args, rets, askPhase, askLog,
                 bailCount, dbTasks, status, sx, ux, sc, tc, fx>>

(***************************************************************************)
(* Session.Start and Session.run.                                          *)
(***************************************************************************)
NoAccount == "Looks like you don't have an account, sorry :("

\* (Variant: after s.bail() Start begins again.)
AfterBailAgain == "start"

\* Where Start continues after s.bail(): the guard has no return statement,
\* so control falls into the range loop.
AfterBail == "recv"

\* (Variant: `go s.run(...)`.)
RunAsync == "recv"

\* Where Start is while s.run executes: the call is synchronous.
RunBlocks == "run"

\* (Variants: the loop ends after the first invocation; the loop ends when
\* an invocation fails.)
AfterRunOnce(st) == "done"

AfterRunStopOnFailure(st) == IF st = success THEN "recv" ELSE "done"

\* Where Start continues when s.run has returned with status st: the result
\* of c.Run() is only logged.
AfterRun(st) == "recv"

\* Exit status of cli.CLI.Run for a line that names no registered command
\* (it writes its help to the process's standard error).
CliHelpStatus == 1

Start ==
  /\ lpc = "start"
  /\ IF user.nil
     THEN /\ CanSend
          /\ SendOut(NoAccount)
          /\ lpc' = "bail"
     ELSE /\ lpc' = "recv"
          /\ UNCHANGED <<outLog, outRecvd>>
  /\ UNCHANGED <<user, db, inCap, outCap, sent, readers, nSent, nLoop, nAsk,
                 inClosed, inv, args, rets, askPhase, askLog, bailCount,
                 dbTasks, status, sx, ux, sc, tc, fx>>

Bail ==
  /\ lpc = "bail"
  /\ bailCount' = bailCount + 1
  /\ lpc' = AfterBail
  /\ UNCHANGED <<user, db, inCap, outCap, sent, readers, nSent, nLoop, nAsk,
                 inClosed, outLog, outRecvd, inv, args, rets, askPhase,
                 askLog, dbTasks, status, sx, ux, sc, tc, fx>>

\* `for i := range s.input` receives a line and calls s.run(strings.Split(i, " ")).
\* With a nil user, building the command (the factory reads s.user.Id) panics.
LoopRecv ==
  /\ lpc = "recv"
  /\ InAvail
  /\ sent' = SubSeq(sent, nRead + 1, Len(sent))
  /\ readers' = <<"loop">>
  /\ nLoop' = nLoop + 1
  /\ outLog' = SubSeq(outLog, outRecvd + 1, Len(outLog))
  /\ outRecvd' = 0
  /\ args' = Split(InHead)
  /\ rets' = <<>>
  /\ askLog' = <<>>
  /\ IF user.nil
     THEN lpc' = "panic" /\ inv' = "none"
     ELSE /\ lpc' = RunBlocks
          /\ inv' = IF Split(InHead)[1] = "todo" THEN "todo" ELSE "cli"
  /\ UNCHANGED <<user, db, inCap, outCap, nSent, nAsk, inClosed, askPhase,
                 bailCount, dbTasks, status, sx, ux, sc, tc, fx>>

\* The range loop ends when the channel is closed and drained; Start returns.
LoopEnd ==
  /\ lpc = "recv"
  /\ InEnded
  /\ lpc' = "done"
  /\ UNCHANGED <<user, db, inCap, outCap, sent, readers, nSent, nLoop, nAsk,
                 inClosed, outLog, outRecvd, inv, args, rets, askPhase,
                 askLog, bailCount, dbTasks, status, sx, ux, sc, tc, fx>>

(***************************************************************************)
(* The running TodoCommand: cli.CLI.Run hands it the tokens after "todo".  *)
(***************************************************************************)
Cur == Trace(user.Id, db, Tail(args), rets)

Pending == inv = "todo" /\ Cur.ctx.blocked

PendingOp == Cur.ctx.ops[Len(Cur.ctx.ops)]

Returned == inv = "cli" \/ (inv = "todo" /\ ~Cur.ctx.blocked)

CmdReturn ==
  /\ Returned
  /\ status' = IF inv = "cli" THEN CliHelpStatus ELSE Cur.status
  /\ lpc' = AfterRun(IF inv = "cli" THEN CliHelpStatus ELSE Cur.status)
  /\ inv' = "none"
  /\ args' = <<>>
  /\ rets' = <<>>
  /\ UNCHANGED <<user, db, inCap, outCap, sent, readers, nSent, nLoop, nAsk,
                 inClosed, outLog, outRecvd, askPhase, askLog, bailCount,
                 dbTasks, sx, ux, sc, tc, fx>>

\* TextUI.send for Output, Info, Warn and Error.
OpOut ==
  /\ Pending
  /\ PendingOp.k = "out"
  /\ CanSend
  /\ SendOut(PendingOp.s)
  /\ rets' = Append(rets, NoRes)
  /\ UNCHANGED <<user, db, inCap, outCap, sent, readers, nSent, nLoop, nAsk,
                 inClosed, lpc, inv, args, askPhase, askLog, bailCount,
                 dbTasks, status, sx, ux, sc, tc, fx>>

(***************************************************************************)
(* TextUI.Ask: u.send(s), then select on u.in and time.After(5 minutes).   *)
(***************************************************************************)
\* (Variant: the received message is dropped.)
AskReplyEmpty(msg) == Res("", "", <<>>)

\* `return msg, nil`
AskReply(msg) == Res(msg, "", <<>>)

\* (Variant: the timeout is not reported as an error.)
AskExpiredNil == Res("", "", <<>>)

\* `return "", fmt.Errorf("TextUI Ask, timeout")`
AskExpired == Res("", TimeoutErr, <<>>)

\* (Variant: the prompt is sent again.)
TimeoutResend(prompt) == prompt

\* What the timeout case sends on u.out before it returns the error.
TimeoutMsg(prompt) == "timeout"

\* The history entry of an Ask that has just sent its prompt, and the entry
\* of one that has returned r.
AskCalled(prompt) ==
  [prompt |-> prompt, at |-> Len(outLog), rd |-> nRead, how |-> "pending",
   v |-> "", err |-> "", end |-> 0, rdEnd |-> 0]

AskEnded(how, r, outs, rds) ==
  [askLog EXCEPT ![Len(askLog)] =
     [@ EXCEPT !.how = how, !.v = r.v, !.err = r.err, !.end = outs, !.rdEnd = rds]]

AskSend ==
  /\ Pending
  /\ PendingOp.k = "ask"
  /\ askPhase = "idle"
  /\ CanSend
  /\ SendOut(PendingOp.s)
  /\ askPhase' = "select"
  /\ askLog' = Append(askLog, AskCalled(PendingOp.s))
  /\ UNCHANGED <<user, db, inCap, outCap, sent, readers, nSent, nLoop, nAsk,
                 inClosed, lpc, inv, args, rets, bailCount, dbTasks, status,
                 sx, ux, sc, tc, fx>>

AskRecv ==
  /\ askPhase = "select"
  /\ InAvail
  /\ readers' = Append(readers, "ask")
  /\ nAsk' = nAsk + 1
  /\ rets' = Append(rets, AskReply(InHead))
  /\ askPhase' = "idle"
  /\ askLog' = AskEnded("reply", AskReply(InHead), Len(outLog), nRead + 1)
  /\ UNCHANGED <<user, db, inCap, outCap, sent, nSent, nLoop, inClosed,
                 outLog, outRecvd, lpc, inv, args, bailCount, dbTasks, status,
                 sx, ux, sc, tc, fx>>

\* On a closed and drained channel `msg := <-u.in` yields the zero value.
AskClosed ==
  /\ askPhase = "select"
  /\ InEnded
  /\ Len(rets) < MaxOps
  /\ rets' = Append(rets, AskReply(""))
  /\ askPhase' = "idle"
  /\ askLog' = AskEnded("closed", AskReply(""), Len(outLog), nRead)
  /\ UNCHANGED <<user, db, inCap, outCap, sent, readers, nSent, nLoop, nAsk,
                 inClosed, outLog, outRecvd, lpc, inv, args, bailCount,
                 dbTasks, status, sx, ux, sc, tc, fx>>

\* (Variant: the timer can fire on a closed channel.)
CanExpireClosed == ~InAvail

\* The select takes the timer case only when the receive case was not
\* ready for five minutes: there was no line and the channel was open.
CanExpire == ~InAvail /\ ~inClosed

\* The timer fires: nothing could be received for five minutes.
AskTimeout ==
  /\ askPhase = "select"
  /\ CanExpire
  /\ askPhase' = "tsend"
  /\ UNCHANGED <<user, db, inCap, outCap, sent, readers, nSent, nLoop, nAsk,
                 inClosed, outLog, outRecvd, lpc, inv, args, rets, askLog,
                 bailCount, dbTasks, status, sx, ux, sc, tc, fx>>

AskTimeoutSend ==
  /\ askPhase = "tsend"
  /\ CanSend
  /\ SendOut(TimeoutMsg(PendingOp.s))
  /\ rets' = Append(rets, AskExpired)
  /\ askPhase' = "idle"
  /\ askLog' = AskEnded("timeout", AskExpired, Len(outLog) + 1, nRead)
  /\ UNCHANGED <<user, db, inCap, outCap, sent, readers, nSent, nLoop, nAsk,
                 inClosed, lpc, inv, args, bailCount, dbTasks, status, sx, ux,
                 sc, tc, fx>>

(***************************************************************************)
(* The database: a call succeeds or fails.                                 *)
(***************************************************************************)
DbQuery ==
  /\ Pending
  /\ PendingOp.k = "query"
  /\ \E ok \in BOOLEAN :
       /\ rets' = Append(rets,
                    IF ~ok THEN Res("", DBErr, <<>>)
                    ELSE IF PendingOp.s = "tasks" THEN Res("", "", dbTasks)
                    ELSE NoRes)
  /\ UNCHANGED <<user, db, inCap, outCap, sent, readers, nSent, nLoop, nAsk,
                 inClosed, outLog, outRecvd, lpc, inv, args, askPhase, askLog,
                 bailCount, dbTasks, status, sx, ux, sc, tc, fx>>

DbSave ==
  /\ Pending
  /\ PendingOp.k = "save"
  /\ \E ok \in BOOLEAN :
       /\ dbTasks' = IF ok THEN Append(dbTasks, PendingOp.t) ELSE dbTasks
       /\ rets' = Append(rets, IF ok THEN NoRes ELSE Res("", DBErr, <<>>))
  /\ UNCHANGED <<user, db, inCap, outCap, sent, readers, nSent, nLoop, nAsk,
                 inClosed, outLog, outRecvd, lpc, inv, args, askPhase, askLog,
                 bailCount, status, sx, ux, sc, tc, fx>>

Next ==
  \/ \E l \in Lines : TransportSend(l)
  \/ TransportClose
  \/ TransportRecv
  \/ Start
  \/ Bail
  \/ LoopRecv
  \/ LoopEnd
  \/ CmdReturn
  \/ OpOut
  \/ AskSend
  \/ AskRecv
  \/ AskClosed
  \/ AskTimeout
  \/ AskTimeoutSend
  \/ DbQuery
  \/ DbSave

Spec == Init /\ [][Next]_vars

TypeOK ==
  /\ lpc \in {"start", "bail", "recv", "run", "panic", "done"}
  /\ inv \in {"none", "cli", "todo"}
  /\ askPhase \in {"idle", "select", "tsend"}
  /\ nRead <= Len(sent)
  /\ outRecvd <= Len(outLog)

(***************************************************************************)
(* The todo scenario: a session with a user and a database to which the    *)
(* transport sends the lines of Script, in order.                          *)
(***************************************************************************)
InitTodo ==
  /\ user = [nil |-> FALSE, Id |-> "u1"]
  /\ db = TRUE
  /\ InitSession
  /\ sx = NoSx
  /\ ux = NoUx
  /\ sc = NoSc
  /\ tc = NoTc
  /\ fx = NoFx

TransportScript ==
  /\ ~inClosed
  /\ nSent < Len(Script)
  /\ Len(sent) - nRead <= inCap
  /\ sent' = Append(sent, Script[nSent + 1])
  /\ nSent' = nSent + 1
  /\ UNCHANGED <<user, db, inCap, outCap, readers, nLoop, nAsk, inClosed,
                 outLog, outRecvd, lpc, inv, args, rets, askPhase, askLog,
                 bailCount, dbTasks, status, sx, ux, sc, tc, fx>>

NextTodo ==
  \/ TransportScript
  \/ TransportClose
  \/ TransportRecv
  \/ Start
  \/ LoopRecv
  \/ LoopEnd
  \/ CmdReturn
  \/ OpOut
  \/ AskSend
  \/ AskRecv
  \/ AskClosed
  \/ AskTimeout
  \/ AskTimeoutSend
  \/ DbQuery
  \/ DbSave

SpecTodo == InitTodo /\ [][NextTodo]_vars

(***************************************************************************)
(* TextUI.Ask and TextUI.AskSecret side by side: two TextUIs, a running    *)
(* Ask(prompt) and b running AskSecret(prompt), on unbuffered output       *)
(* channels, meet the same transport events:                               *)
(*   take    the transport receives one message from the output channel    *)
(*   select  a value (or the closure) of the input channel is delivered    *)
(*   timer   five minutes pass with nothing to receive                     *)
(* A TextUI is its position pc ("call", "select", "tsend", "ret"), the     *)
(* messages out it has sent, the number nread of lines it has received     *)
(* and the result (v, err) it has returned.                                *)
(***************************************************************************)
NewUi == [pc |-> "call", out |-> <<>>, nread |-> 0, v |-> "", err |-> ""]

SecretPrompts == {"Private Credential:", "Name: [string]:"}

\* (Variant: the select of Ask has no timer case.)
AskOnForever(u, s, inq, closed, ev) ==
  CASE u.pc = "call" /\ ev = "take" ->
         [u EXCEPT !.pc = "select", !.out = Append(@, s)]
    [] u.pc = "select" /\ ev = "select" /\ Len(inq) > u.nread ->
         [u EXCEPT !.pc = "ret", !.nread = @ + 1, !.v = inq[u.nread + 1]]
    [] u.pc = "select" /\ ev = "select" /\ Len(inq) = u.nread /\ closed ->
         [u EXCEPT !.pc = "ret"]
    [] OTHER -> u

\* TextUI.Ask(s) of u at the event ev, with inq the lines put on the input
\* channel and closed telling whether it is closed.
AskOn(u, s, inq, closed, ev) ==
  CASE u.pc = "call" /\ ev = "take" ->
         [u EXCEPT !.pc = "select", !.out = Append(@, s)]
    [] u.pc = "select" /\ ev = "select" /\ Len(inq) > u.nread ->
         [u EXCEPT !.pc = "ret", !.nread = @ + 1,
                   !.v = AskReply(inq[u.nread + 1]).v,
                   !.err = AskReply(inq[u.nread + 1]).err]
    [] u.pc = "select" /\ ev = "select" /\ Len(inq) = u.nread /\ closed ->
         [u EXCEPT !.pc = "ret", !.v = AskReply("").v, !.err = AskReply("").err]
    [] u.pc = "select" /\ ev = "timer" /\ Len(inq) = u.nread /\ ~closed ->
         [u EXCEPT !.pc = "tsend"]
    [] u.pc = "tsend" /\ ev = "take" ->
         [u EXCEPT !.pc = "ret", !.out = Append(@, TimeoutMsg(s)),
                   !.v = AskExpired.v, !.err = AskExpired.err]
    [] OTHER -> u

\* (Variant: AskSecret does not give up after five minutes.)
AskSecretNoTimer(u, s, inq, closed, ev) ==
  AskOn(u, s, inq, closed, IF ev = "timer" THEN "none" ELSE ev)

\* TextUI.AskSecret(s): `return u.Ask(s)`.
AskSecretOn(u, s, inq, closed, ev) == AskOn(u, s, inq, closed, ev)

InitSecret ==
  /\ user = [nil |-> FALSE, Id |-> "u1"]
  /\ db = TRUE
  /\ InitSession
  /\ inCap = 0
  /\ outCap = 0
  /\ dbTasks = <<>>
  /\ ux = NoUx
  /\ sc = NoSc
  /\ tc = NoTc
  /\ fx = NoFx
  /\ sx \in {[on |-> TRUE, prompt |-> p, inq |-> <<>>, closed |-> FALSE,
              a |-> NewUi, b |-> NewUi] : p \in SecretPrompts}

SxEvent(ev) ==
  /\ sx.on
  /\ sx' = [sx EXCEPT !.a = AskOn(sx.a, sx.prompt, sx.inq, sx.closed, ev),
                      !.b = AskSecretOn(sx.b, sx.prompt, sx.inq, sx.closed, ev)]
  /\ sx' # sx
  /\ UNCHANGED <<user, db, inCap, outCap, sent, readers, nSent, nLoop, nAsk,
                 inClosed, outLog, outRecvd, lpc, inv, args, rets, askPhase,
                 askLog, bailCount, dbTasks, status, ux, sc, tc, fx>>

SxTake == SxEvent("take")

SxSelect == SxEvent("select")

SxTimer == SxEvent("timer")

SxLine(l) ==
  /\ sx.on
  /\ ~sx.closed
  /\ Len(sx.inq) < MaxSecretLines
  /\ sx' = [sx EXCEPT !.inq = Append(@, l)]
  /\ UNCHANGED <<user, db, inCap, outCap, sent, readers, nSent, nLoop, nAsk,
                 inClosed, outLog, outRecvd, lpc, inv, args, rets, askPhase,
                 askLog, bailCount, dbTasks, status, ux, sc, tc, fx>>

SxClose ==
  /\ sx.on
  /\ ~sx.closed
  /\ sx' = [sx EXCEPT !.closed = TRUE]
  /\ UNCHANGED <<user, db, inCap, outCap, sent, readers, nSent, nLoop, nAsk,
                 inClosed, outLog, outRecvd, lpc, inv, args, rets, askPhase,
                 askLog, bailCount, dbTasks, status, ux, sc, tc, fx>>

NextSecret ==
  \/ SxTake
  \/ SxSelect
  \/ SxTimer
  \/ \E l \in Lines : SxLine(l)
  \/ SxClose

SpecSecret == InitSecret /\ [][NextSecret]_vars


(***************************************************************************)
(* TextUI.Output, Info, Warn and Error: a caller calls them one after      *)
(* another on one TextUI.  ux is                                           *)
(*   cap      capacity of the output channel u.out                         *)
(*   buf      the messages in the buffer of u.out                          *)
(*   recvd    the messages the transport has received from u.out           *)
(*   inq      the lines the transport has put on the input channel u.in    *)
(*   nread    how many lines the TextUI has received from u.in             *)
(*   pc       "idle" (no call in progress) or "send" (at `u.out <- txt`)   *)
(*   pend     the messages the call in progress has still to send          *)
(*   calls    the calls made, each with its method m and its text s        *)
(*   returned how many calls have returned                                 *)
(***************************************************************************)
UiMethods == {"Output", "Info", "Warn", "Error"}

UiTexts == {"Todos:", "That isn't a valid index"}

\* TextUI.send(txt): the call goes to `u.out <- txt`.
sendOn(u, txt) == [u EXCEPT !.pc = "send", !.pend = Append(@, txt)]

OutputOn(u, s) == sendOn(u, s)

InfoOn(u, s) == sendOn(u, s)

\* (Variant: Error sends a marker message before the text.)
ErrorOnMarked(u, s) == sendOn(sendOn(u, "Error:"), s)

ErrorOn(u, s) == sendOn(u, s)

WarnOn(u, s) == sendOn(u, s)

CallOn(u, m, s) ==
  CASE m = "Output" -> OutputOn(u, s)
    [] m = "Info" -> InfoOn(u, s)
    [] m = "Error" -> ErrorOn(u, s)
    [] m = "Warn" -> WarnOn(u, s)

\* (Variant: the send never waits, as with a `select` that has a default.)
RoomAlways(u) == TRUE

\* `u.out <- txt` on a buffered channel completes when the buffer has room.
Room(u) == Len(u.buf) < u.cap

\* The send of the call in progress has completed; the call returns when
\* it was its last.
Sent(u) ==
  [u EXCEPT !.pend = Tail(@),
            !.pc = IF Len(u.pend) = 1 THEN "idle" ELSE "send",
            !.returned = IF Len(u.pend) = 1 THEN @ + 1 ELSE @]

InitUi ==
  /\ user = [nil |-> FALSE, Id |-> "u1"]
  /\ db = TRUE
  /\ InitSession
  /\ inCap = 0
  /\ outCap = 0
  /\ dbTasks = <<>>
  /\ sx = NoSx
  /\ sc = NoSc
  /\ tc = NoTc
  /\ fx = NoFx
  /\ ux \in {[on |-> TRUE, cap |-> c, buf |-> <<>>, recvd |-> <<>>,
              inq |-> <<>>, nread |-> 0, pc |-> "idle", pend |-> <<>>,
              calls |-> <<>>, returned |-> 0] : c \in 0..MaxOutCap}

UxCall(m, s) ==
  /\ ux.on
  /\ ux.pc = "idle"
  /\ Len(ux.calls) < MaxCalls
  /\ ux' = [CallOn(ux, m, s) EXCEPT !.calls = Append(@, [m |-> m, s |-> s])]
  /\ UNCHANGED <<user, db, inCap, outCap, sent, readers, nSent, nLoop, nAsk,
                 inClosed, outLog, outRecvd, lpc, inv, args, rets, askPhase,
                 askLog, bailCount, dbTasks, status, sx, sc, tc, fx>>

\* The send on a buffered channel.
UxSend ==
  /\ ux.on
  /\ ux.pc = "send"
  /\ ux.cap > 0
  /\ Room(ux)
  /\ ux' = [Sent(ux) EXCEPT !.buf = Append(@, Head(ux.pend))]
  /\ UNCHANGED <<user, db, inCap, outCap, sent, readers, nSent, nLoop, nAsk,
                 inClosed, outLog, outRecvd, lpc, inv, args, rets, askPhase,
                 askLog, bailCount, dbTasks, status, sx, sc, tc, fx>>

\* The send on an unbuffered channel completes with the transport's receive.
UxHandOver ==
  /\ ux.on
  /\ ux.pc = "send"
  /\ ux.cap = 0
  /\ ux' = [Sent(ux) EXCEPT !.recvd = Append(@, Head(ux.pend))]
  /\ UNCHANGED <<user, db, inCap, outCap, sent, readers, nSent, nLoop, nAsk,
                 inClosed, outLog, outRecvd, lpc, inv, args, rets, askPhase,
                 askLog, bailCount, dbTasks, status, sx, sc, tc, fx>>

\* The transport receives from the buffer of u.out.
UxTake ==
  /\ ux.on
  /\ ux.buf # <<>>
  /\ ux' = [ux EXCEPT !.buf = Tail(@), !.recvd = Append(@, Head(ux.buf))]
  /\ UNCHANGED <<user, db, inCap, outCap, sent, readers, nSent, nLoop, nAsk,
                 inClosed, outLog, outRecvd, lpc, inv, args, rets, askPhase,
                 askLog, bailCount, dbTasks, status, sx, sc, tc, fx>>

\* The transport puts a line on u.in.
UxLine(l) ==
  /\ ux.on
  /\ Len(ux.inq) < MaxUiLines
  /\ ux' = [ux EXCEPT !.inq = Append(@, l)]
  /\ UNCHANGED <<user, db, inCap, outCap, sent, readers, nSent, nLoop, nAsk,
                 inClosed, outLog, outRecvd, lpc, inv, args, rets, askPhase,
                 askLog, bailCount, dbTasks, status, sx, sc, tc, fx>>

NextUi ==
  \/ \E m \in UiMethods, s \in UiTexts : UxCall(m, s)
  \/ UxSend
  \/ UxHandOver
  \/ UxTake
  \/ \E l \in Lines : UxLine(l)

SpecUi == InitUi /\ [][NextUi]_vars

(***************************************************************************)
(* StreamCommand.Run on a cli.Ui, with the producer of the change feed.    *)
(* sc is                                                                   *)
(*   ui, db     whether c.UI and c.DB are non-nil                          *)
(*   userID     c.UserID                                                   *)
(*   subscribed c.DB.Changes() has been called                             *)
(*   pc         position of Run: "start", "select", "beat" (the timer case *)
(*              was taken), "tags", "loc", "note" (before the lookup of    *)
(*              that name) or "done"                                       *)
(*   feed       the changes the producer has put on the feed, in order     *)
(*   closed     the producer has closed the feed                           *)
(*   nrecv      how many changes Run has received                          *)
(*   cur        index in feed of the change Run is handling (0: none)      *)
(*   tagString  the local variable tagString                               *)
(*   out        the lines written on the cli.Ui: the method w, the text s  *)
(*              and the index ev of the change the line renders (0: none)  *)
(*   idle       seconds the select has waited since it was entered         *)
(*   quiet      seconds Run has waited since it last received a change     *)
(*   beats      heartbeat lines written since it last received a change    *)
(*   seconds    seconds Run has waited in all                              *)
(*   err        err of the last lookup                                     *)
(*   status     exit status of Run (-1: it has not returned)               *)
(***************************************************************************)
NoLoc == [has |-> FALSE, lat |-> 0, lon |-> 0, alt |-> 0]

NoNote == [has |-> FALSE, text |-> ""]

Change(ck, rk, name, tags, loc, note) ==
  [ck |-> ck, rk |-> rk, name |-> name, tags |-> tags, loc |-> loc, note |-> note]

\* The changes the producer may send: a creation and a deletion of an
\* event, an update of a record that is no event, and updates of events
\* without and with tags, location and note.
Changes ==
  { Change("Create", "Event", "event name", <<>>, NoLoc, NoNote),
    Change("Delete", "Event", "event name", <<>>, NoLoc, NoNote),
    Change("Update", "Task", "Buy milk", <<>>, NoLoc, NoNote),
    Change("Update", "Event", "event name", <<>>, NoLoc, NoNote),
    Change("Update", "Event", "standup", <<"work">>,
           [has |-> TRUE, lat |-> 1, lon |-> -2, alt |-> 0], NoNote),
    Change("Update", "Event", "review", <<"work", "home">>, NoLoc,
           [has |-> TRUE, text |-> "bring slides"]) }

ErrEmptyLink == "empty link"

\* e.Tags(c.DB), e.Location(c.DB) and e.Note(c.DB): ok tells whether the
\* database answers; a link that is not set gives ErrEmptyLink.
TagsLookup(e, ok) ==
  IF ok THEN [v |-> e.tags, err |-> ""] ELSE [v |-> <<>>, err |-> DBErr]

LocationLookup(e, ok) ==
  IF ~ok THEN [v |-> NoLoc, err |-> DBErr]
  ELSE IF e.loc.has THEN [v |-> e.loc, err |-> ""]
  ELSE [v |-> NoLoc, err |-> ErrEmptyLink]

NoteLookup(e, ok) ==
  IF ~ok THEN [v |-> NoNote, err |-> DBErr]
  ELSE IF e.note.has THEN [v |-> e.note, err |-> ""]
  ELSE [v |-> NoNote, err |-> ErrEmptyLink]

\* (Variant: the badges stand side by side, with nothing before them.)
RECURSIVE TagListJoined(_)
TagListJoined(tags) ==
  IF tags = <<>> THEN ""
  ELSE "[" \o Head(tags) \o "]" \o TagListJoined(Tail(tags))

\* `for _, t := range tags { tagString += fmt.Sprintf(" [%s]", t.Name) }`
RECURSIVE TagList(_)
TagList(tags) ==
  IF tags = <<>> THEN ""
  ELSE " [" \o Head(tags) \o "]" \o TagList(Tail(tags))

\* (Variant: no tags give no leading space.)
TagStringBare(tags) ==
  IF TagList(tags) = "" THEN "" ELSE TagList(tags) \o ": "

TagString(tags) ==
  IF TagList(tags) = "" THEN " " ELSE TagList(tags) \o ": "

\* fmt's %f of a float64 that holds a whole number.
FormatF(n) == ToString(n) \o ".000000"

LocString(loc) ==
  IF loc.has
  THEN "(lat: " \o FormatF(loc.lat) \o ", lon: " \o FormatF(loc.lon)
         \o ", alt: " \o FormatF(loc.alt) \o ")"
  ELSE ""

\* fmt.Sprintf("%s%s %s", tagString, e.Name, locString)
EventLine(tagString, name, locString) == tagString \o name \o " " \o locString

\* (Variant: the note's line has no tab.)
NoteLineFlush(text) == "Note: " \o text

\* fmt.Sprintf("\tNote: %s", n.Text)
NoteLine(text) == "\tNote: " \o text

HeartbeatLine == "5 second heartbeat"

ClosedLine == "Connection closed by server"

\* time.After(5 * time.Second)
HeartbeatAfter == 5

\* StreamCommand.errorf
streamErrorf(s) == "[elos stream] Error: " \o s

\* c.UI.Output(s) and c.UI.Error(s) while the change of index ev is handled.
UiOutput(c, s, ev) ==
  [c EXCEPT !.out = Append(@, [w |-> "Output", s |-> s, ev |-> ev])]

UiError(c, s) ==
  [c EXCEPT !.out = Append(@, [w |-> "Error", s |-> s, ev |-> 0])]

\* `return st`
Return(c, st) == [c EXCEPT !.pc = "done", !.status = st]

\* (Variant: the database is checked before the user id.)
PreconditionDbFirst(c) ==
  IF ~c.ui THEN "no ui"
  ELSE IF ~c.db THEN "no db"
  ELSE IF c.userID = "" THEN "no user id"
  ELSE ""

\* The checks at the top of Run: what is found missing first ("": nothing).
Precondition(c) ==
  IF ~c.ui THEN "no ui"
  ELSE IF c.userID = "" THEN "no user id"
  ELSE IF ~c.db THEN "no db"
  ELSE ""

\* (Variant: every update is rendered, whatever the kind of its record.)
RenderedAnyKind(ch) == ch.ck = "Update"

\* The two `continue` filters: only updates of events are rendered.
Rendered(ch) == ch.ck = "Update" /\ ch.rk = "Event"

\* (Variant: every error of a lookup is fatal.)
LinkFailedAny(err) == err # ""

\* `err != nil && err != models.ErrEmptyLink`
LinkFailed(err) == err # "" /\ err # ErrEmptyLink

\* (Variant: the changes are taken newest first.)
FeedNewest(c) == Len(c.feed) - c.nrecv

\* `<-changes` yields the oldest change not yet received.
FeedNext(c) == c.nrecv + 1

\* (Variant: one timer, made before the loop, keeps running.)
KeepTimer(idle) == idle

\* The select is entered again: time.After makes a new timer.
Rearm(idle) == 0

\* (Variant: the heartbeat ends Run.)
BeatReturns == "done"

\* After the heartbeat line the loop goes round to the select.
BeatNext == "select"

\* (Variant: `continue` after the closure line.)
ClosedContinue == "select"

\* `return success` after the closure line.
ClosedReturn == "done"

InitStream ==
  /\ user = [nil |-> FALSE, Id |-> "u1"]
  /\ db = TRUE
  /\ InitSession
  /\ inCap = 0
  /\ outCap = 0
  /\ dbTasks = <<>>
  /\ sx = NoSx
  /\ ux = NoUx
  /\ tc = NoTc
  /\ fx = NoFx
  /\ sc \in {[on |-> TRUE, ui |-> u, userID |-> id, db |-> d,
              subscribed |-> FALSE, pc |-> "start", feed |-> <<>>,
              closed |-> FALSE, nrecv |-> 0, cur |-> 0, tagString |-> "",
              out |-> <<>>, idle |-> 0, quiet |-> 0, beats |-> 0,
              seconds |-> 0, err |-> "", status |-> -1] :
             u \in BOOLEAN, id \in {"", "u1"}, d \in BOOLEAN}

\* Run up to the loop: the checks, then `changes := *c.DB.Changes()`.
StreamRun ==
  /\ sc.on
  /\ sc.pc = "start"
  /\ sc' = IF Precondition(sc) = "no ui" THEN Return(sc, failure)
           ELSE IF Precondition(sc) # ""
           THEN Return(UiError(sc, streamErrorf(Precondition(sc))), failure)
           ELSE [sc EXCEPT !.subscribed = TRUE, !.pc = "select"]
  /\ UNCHANGED <<user, db, inCap, outCap, sent, readers, nSent, nLoop, nAsk,
                 inClosed, outLog, outRecvd, lpc, inv, args, rets, askPhase,
                 askLog, bailCount, dbTasks, status, sx, ux, tc, fx>>

\* The producer puts a change on the feed.
FeedSend(ch) ==
  /\ sc.on
  /\ sc.subscribed
  /\ ~sc.closed
  /\ Len(sc.feed) < MaxFeed
  /\ sc' = [sc EXCEPT !.feed = Append(@, ch)]
  /\ UNCHANGED <<user, db, inCap, outCap, sent, readers, nSent, nLoop, nAsk,
                 inClosed, outLog, outRecvd, lpc, inv, args, rets, askPhase,
                 askLog, bailCount, dbTasks, status, sx, ux, tc, fx>>

\* The producer closes the feed.
FeedClose ==
  /\ sc.on
  /\ sc.subscribed
  /\ ~sc.closed
  /\ sc' = [sc EXCEPT !.closed = TRUE]
  /\ UNCHANGED <<user, db, inCap, outCap, sent, readers, nSent, nLoop, nAsk,
                 inClosed, outLog, outRecvd, lpc, inv, args, rets, askPhase,
                 askLog, bailCount, dbTasks, status, sx, ux, tc, fx>>

\* A second passes while the select waits: nothing can be received.  The
\* fifth second fires the timer, and the select takes the timer case.
StreamTick ==
  /\ sc.on
  /\ sc.pc = "select"
  /\ sc.nrecv = Len(sc.feed)
  /\ ~sc.closed
  /\ sc.seconds < MaxSeconds
  /\ sc' = [sc EXCEPT !.idle = @ + 1, !.quiet = @ + 1, !.seconds = @ + 1,
                      !.pc = IF sc.idle + 1 = HeartbeatAfter
                             THEN "beat" ELSE "select"]
  /\ UNCHANGED <<user, db, inCap, outCap, sent, readers, nSent, nLoop, nAsk,
                 inClosed, outLog, outRecvd, lpc, inv, args, rets, askPhase,
                 askLog, bailCount, dbTasks, status, sx, ux, tc, fx>>

\* `case <-time.After(5 * time.Second): c.UI.Output("5 second heartbeat")`
StreamBeat ==
  /\ sc.on
  /\ sc.pc = "beat"
  /\ sc' = [UiOutput(sc, HeartbeatLine, 0) EXCEPT
              !.pc = BeatNext, !.idle = Rearm(sc.idle), !.beats = @ + 1]
  /\ UNCHANGED <<user, db, inCap, outCap, sent, readers, nSent, nLoop, nAsk,
                 inClosed, outLog, outRecvd, lpc, inv, args, rets, askPhase,
                 askLog, bailCount, dbTasks, status, sx, ux, tc, fx>>

\* `case change, ok := <-changes` with ok: the two filters.
StreamRecv ==
  /\ sc.on
  /\ sc.pc = "select"
  /\ sc.nrecv < Len(sc.feed)
  /\ sc' = [sc EXCEPT !.nrecv = @ + 1, !.quiet = 0, !.beats = 0,
                      !.idle = Rearm(sc.idle),
                      !.pc = IF Rendered(sc.feed[FeedNext(sc)])
                             THEN "tags" ELSE "select",
                      !.cur = IF Rendered(sc.feed[FeedNext(sc)])
                              THEN FeedNext(sc) ELSE 0]
  /\ UNCHANGED <<user, db, inCap, outCap, sent, readers, nSent, nLoop, nAsk,
                 inClosed, outLog, outRecvd, lpc, inv, args, rets, askPhase,
                 askLog, bailCount, dbTasks, status, sx, ux, tc, fx>>

\* `case change, ok := <-changes` with !ok: the feed is closed and drained.
StreamClosed ==
  /\ sc.on
  /\ sc.pc = "select"
  /\ sc.nrecv = Len(sc.feed)
  /\ sc.closed
  /\ sc' = [UiOutput(sc, ClosedLine, 0) EXCEPT
              !.pc = ClosedReturn, !.status = success]
  /\ UNCHANGED <<user, db, inCap, outCap, sent, readers, nSent, nLoop, nAsk,
                 inClosed, outLog, outRecvd, lpc, inv, args, rets, askPhase,
                 askLog, bailCount, dbTasks, status, sx, ux, tc, fx>>

\* `tags, err := e.Tags(c.DB)` and the building of tagString.
StreamTags ==
  /\ sc.on
  /\ sc.pc = "tags"
  /\ \E ok \in BOOLEAN :
       sc' = IF TagsLookup(sc.feed[sc.cur], ok).err # ""
             THEN Return([sc EXCEPT !.err = TagsLookup(sc.feed[sc.cur], ok).err],
                         failure)
             ELSE [sc EXCEPT !.err = "", !.pc = "loc",
                     !.tagString = TagString(TagsLookup(sc.feed[sc.cur], ok).v)]
  /\ UNCHANGED <<user, db, inCap, outCap, sent, readers, nSent, nLoop, nAsk,
                 inClosed, outLog, outRecvd, lpc, inv, args, rets, askPhase,
                 askLog, bailCount, dbTasks, status, sx, ux, tc, fx>>

\* `loc, err := e.Location(c.DB)` and the Output of the event's line.
StreamLocation ==
  /\ sc.on
  /\ sc.pc = "loc"
  /\ \E ok \in BOOLEAN :
       sc' = IF LinkFailed(LocationLookup(sc.feed[sc.cur], ok).err)
             THEN Return([sc EXCEPT !.err = LocationLookup(sc.feed[sc.cur], ok).err],
                         failure)
             ELSE [UiOutput(sc, EventLine(sc.tagString, sc.feed[sc.cur].name,
                                          LocString(LocationLookup(sc.feed[sc.cur], ok).v)),
                            sc.cur)
                   EXCEPT !.err = LocationLookup(sc.feed[sc.cur], ok).err,
                          !.pc = "note"]
  /\ UNCHANGED <<user, db, inCap, outCap, sent, readers, nSent, nLoop, nAsk,
                 inClosed, outLog, outRecvd, lpc, inv, args, rets, askPhase,
                 askLog, bailCount, dbTasks, status, sx, ux, tc, fx>>

\* `n, err := e.Note(c.DB)` and the Output of the note's line.
StreamNote ==
  /\ sc.on
  /\ sc.pc = "note"
  /\ \E ok \in BOOLEAN :
       sc' = IF LinkFailed(NoteLookup(sc.feed[sc.cur], ok).err)
             THEN Return([sc EXCEPT !.err = NoteLookup(sc.feed[sc.cur], ok).err],
                         failure)
             ELSE [(IF NoteLookup(sc.feed[sc.cur], ok).v.has
                    THEN UiOutput(sc, NoteLine(NoteLookup(sc.feed[sc.cur], ok).v.text),
                                  sc.cur)
                    ELSE sc)
                   EXCEPT !.err = NoteLookup(sc.feed[sc.cur], ok).err,
                          !.pc = "select", !.idle = Rearm(sc.idle), !.cur = 0]
  /\ UNCHANGED <<user, db, inCap, outCap, sent, readers, nSent, nLoop, nAsk,
                 inClosed, outLog, outRecvd, lpc, inv, args, rets, askPhase,
                 askLog, bailCount, dbTasks, status, sx, ux, tc, fx>>

NextStream ==
  \/ StreamRun
  \/ \E ch \in Changes : FeedSend(ch)
  \/ FeedClose
  \/ StreamTick
  \/ StreamBeat
  \/ StreamRecv
  \/ StreamClosed
  \/ StreamTags
  \/ StreamLocation
  \/ StreamNote

SpecStream == InitStream /\ [][NextStream]_vars

(***************************************************************************)
(* strings.Split(i, " ") of Session.Start on its own: fx.cs is the line,   *)
(* as its characters, and fx.args the argument vector handed to s.run.     *)
(***************************************************************************)
LineChars == {"a", " ", "\t"}

RECURSIVE SeqsUpTo(_, _)
SeqsUpTo(S, n) ==
  IF n = 0 THEN {<<>>}
  ELSE SeqsUpTo(S, n - 1)
         \cup {Append(q, x) : q \in {p \in SeqsUpTo(S, n - 1) : Len(p) = n - 1},
                              x \in S}

InitSplit ==
  /\ user = [nil |-> FALSE, Id |-> "u1"]
  /\ db = TRUE
  /\ InitSession
  /\ inCap = 0
  /\ outCap = 0
  /\ dbTasks = <<>>
  /\ sx = NoSx
  /\ ux = NoUx
  /\ sc = NoSc
  /\ tc = NoTc
  /\ fx \in {[on |-> TRUE, f |-> "Split", cs |-> cs, done |-> FALSE,
              args |-> <<>>] : cs \in SeqsUpTo(LineChars, MaxLineLen)}

\* `s.run(strings.Split(i, " "))`
FxSplit ==
  /\ fx.on
  /\ fx.f = "Split"
  /\ ~fx.done
  /\ fx' = [fx EXCEPT !.done = TRUE, !.args = SplitAcc(fx.cs, "", <<>>)]
  /\ UNCHANGED <<user, db, inCap, outCap, sent, readers, nSent, nLoop, nAsk,
                 inClosed, outLog, outRecvd, lpc, inv, args, rets, askPhase,
                 askLog, bailCount, dbTasks, status, sx, ux, sc, tc>>

NextSplit == FxSplit

SpecSplit == InitSplit /\ [][NextSplit]_vars

(***************************************************************************)
(* TodoCommand.removeTask on its own: fx.tasks is c.tasks before the call, *)
(* fx.index the (valid) index and fx.res is c.tasks after the call.        *)
(***************************************************************************)
TaskNames == {"Buy milk", "Old task", "Call home"}

InitRemove ==
  /\ user = [nil |-> FALSE, Id |-> "u1"]
  /\ db = TRUE
  /\ InitSession
  /\ inCap = 0
  /\ outCap = 0
  /\ dbTasks = <<>>
  /\ sx = NoSx
  /\ ux = NoUx
  /\ sc = NoSc
  /\ tc = NoTc
  /\ fx \in {[on |-> TRUE, f |-> "removeTask", tasks |-> ts, index |-> i,
              done |-> FALSE, res |-> <<>>] :
             ts \in SeqsUpTo(TaskNames, MaxTasks), i \in 0..(MaxTasks - 1)}
  /\ fx.index < Len(fx.tasks)

\* `c.removeTask(index)`
FxRemove ==
  /\ fx.on
  /\ fx.f = "removeTask"
  /\ ~fx.done
  /\ fx' = [fx EXCEPT !.done = TRUE, !.res = removeTask(fx.tasks, fx.index)]
  /\ UNCHANGED <<user, db, inCap, outCap, sent, readers, nSent, nLoop, nAsk,
                 inClosed, outLog, outRecvd, lpc, inv, args, rets, askPhase,
                 askLog, bailCount, dbTasks, status, sx, ux, sc, tc>>

NextRemove == FxRemove

SpecRemove == InitRemove /\ [][NextRemove]_vars

(***************************************************************************)
(* TodoCommand.promptSelectTag as runTag calls it, after a task has been   *)
(* selected (so there is at least one task): fx.nTasks is len(c.tasks),    *)
(* fx.tags the tags of c.tags in the order they are listed, fx.index the   *)
(* number entered, fx.outs what was written and fx.res the tag returned,   *)
(* "nil", or "panic" for the index out of range that ends the process.     *)
(***************************************************************************)
TagNames == [i \in 1..MaxTags |-> "tag" \o ToString(i)]

\* The check of the entered index and `return tags[indexOfCurrent]`.
selectTag(nTasks, tags, index) ==
  IF index < 0 \/ index > nTasks - 1
  THEN [out |-> <<ToString(index) \o " is not a valid index. Need a # in (0,...,"
                    \o ToString(Len(tags) - 1) \o ")">>,
        res |-> "nil"]
  ELSE IF index + 1 \in DOMAIN tags THEN [out |-> <<>>, res |-> tags[index + 1]]
  ELSE [out |-> <<>>, res |-> "panic"]

InitTag ==
  /\ user = [nil |-> FALSE, Id |-> "u1"]
  /\ db = TRUE
  /\ InitSession
  /\ inCap = 0
  /\ outCap = 0
  /\ dbTasks = <<>>
  /\ sx = NoSx
  /\ ux = NoUx
  /\ sc = NoSc
  /\ tc = NoTc
  /\ fx \in {[on |-> TRUE, f |-> "promptSelectTag", nTasks |-> n,
              tags |-> SubSeq(TagNames, 1, k), pc |-> "start", index |-> -1,
              outs |-> <<>>, res |-> "nil"] :
             n \in 1..MaxTasks, k \in 0..MaxTags}

\* Without tags: the warning and nil.  Otherwise printTagList.
FxTagList ==
  /\ fx.on
  /\ fx.f = "promptSelectTag"
  /\ fx.pc = "start"
  /\ fx' = IF Len(fx.tags) = 0
           THEN [fx EXCEPT !.pc = "done", !.outs = <<"You do not have any tags">>]
           ELSE [fx EXCEPT !.pc = "ask",
                           !.outs = [i \in 1..Len(fx.tags) |->
                                       ToString(i - 1) \o ") " \o fx.tags[i]]]
  /\ UNCHANGED <<user, db, inCap, outCap, sent, readers, nSent, nLoop, nAsk,
                 inClosed, outLog, outRecvd, lpc, inv, args, rets, askPhase,
                 askLog, bailCount, dbTasks, status, sx, ux, sc, tc>>

\* intInput returns the number i.
FxTagIndex(i) ==
  /\ fx.on
  /\ fx.f = "promptSelectTag"
  /\ fx.pc = "ask"
  /\ fx' = [fx EXCEPT !.pc = "done", !.index = i,
                      !.outs = @ \o selectTag(fx.nTasks, fx.tags, i).out,
                      !.res = selectTag(fx.nTasks, fx.tags, i).res]
  /\ UNCHANGED <<user, db, inCap, outCap, sent, readers, nSent, nLoop, nAsk,
                 inClosed, outLog, outRecvd, lpc, inv, args, rets, askPhase,
                 askLog, bailCount, dbTasks, status, sx, ux, sc, tc>>

\* intInput returns an error.
FxTagAskFails ==
  /\ fx.on
  /\ fx.f = "promptSelectTag"
  /\ fx.pc = "ask"
  /\ fx' = [fx EXCEPT !.pc = "failed",
                      !.outs = Append(@, "[elos todo] Error: input error: "
                                           \o TimeoutErr)]
  /\ UNCHANGED <<user, db, inCap, outCap, sent, readers, nSent, nLoop, nAsk,
                 inClosed, outLog, outRecvd, lpc, inv, args, rets, askPhase,
                 askLog, bailCount, dbTasks, status, sx, ux, sc, tc>>

NextTag ==
  \/ FxTagList
  \/ \E i \in -1..(MaxTags + 1) : FxTagIndex(i)
  \/ FxTagAskFails

SpecTag == InitTag /\ [][NextTag]_vars

(***************************************************************************)
(* TodoCommand.Run called directly, as the tests do, on a command built    *)
(* with or without a UI, a user id and a database.  tc is                  *)
(*   ui, user, db  the fields UI (non-nil), UserID and DB (non-nil)        *)
(*   args          the arguments of Run                                    *)
(*   rets          results of the operations Run has completed             *)
(*   log           the kinds of those operations: "out", "ask", "query",   *)
(*                 "save", "delete"                                        *)
(*   outs          the texts written on the UI                             *)
(*   stored0       the user's tasks in the database when Run is called     *)
(*   stored        the user's tasks in the database                        *)
(*   done, status  Run has returned, and its exit status                   *)
(***************************************************************************)
RunArgs ==
  {<<>>, <<"new">>, <<"list">>, <<"delete">>, <<"garbage">>, <<"l">>,
   <<"n">>, <<"d">>, <<"list", "all">>}

RunAnswers == {"Buy milk", "y", "n", "0", "1"}

YesNoPrompts ==
  {p \o " [y to confirm]" :
     p \in {"Does it have a deadline?", "Would you like to use the current time?",
            "Does it have any prerequisites?", "Any dependencies that are current?",
            "Any more current prereqs?", "Any dependencies that are new tasks?",
            "Any more new prereqs?"}}

\* What the user of the scenario answers to a prompt: a name, y or n, or
\* (to the prompts for an integer) a number or a letter.
AnswersTo(s) ==
  IF s = "Name: [string]:" THEN {"Buy milk"}
  ELSE IF s \in YesNoPrompts THEN {"y", "n"}
  ELSE {"0", "1", "y"}

InitRun ==
  /\ user = [nil |-> FALSE, Id |-> "u1"]
  /\ db = TRUE
  /\ InitSession
  /\ inCap = 0
  /\ outCap = 0
  /\ dbTasks = <<>>
  /\ sx = NoSx
  /\ ux = NoUx
  /\ sc = NoSc
  /\ fx = NoFx
  /\ tc \in {[on |-> TRUE, ui |-> u, user |-> id, db |-> d, args |-> a,
              rets |-> <<>>, log |-> <<>>, outs |-> <<>>, stored0 |-> st,
              stored |-> st, done |-> FALSE, status |-> -1] :
             u \in BOOLEAN, id \in {"", "u1"}, d \in BOOLEAN, a \in RunArgs,
             st \in {<<>>, <<OldTask>>}}

TcCur == TraceOn(tc.ui, tc.user, tc.db, tc.args, tc.rets)

TcPending == tc.on /\ ~tc.done /\ TcCur.ctx.blocked

TcOp == TcCur.ctx.ops[Len(TcCur.ctx.ops)]

\* The operation Run is in completes with the result r.
TcDone(r) ==
  [tc EXCEPT !.rets = Append(@, r), !.log = Append(@, TcOp.k)]

\* Output, Info, Warn or Error on the cli.Ui.
TcOut ==
  /\ TcPending
  /\ TcOp.k = "out"
  /\ tc' = [TcDone(NoRes) EXCEPT !.outs = Append(@, TcOp.s)]
  /\ UNCHANGED <<user, db, inCap, outCap, sent, readers, nSent, nLoop, nAsk,
                 inClosed, outLog, outRecvd, lpc, inv, args, rets, askPhase,
                 askLog, bailCount, dbTasks, status, sx, ux, sc, fx>>

\* Ask on the cli.Ui: the answer a.
TcAsk(a) ==
  /\ TcPending
  /\ TcOp.k = "ask"
  /\ Len(tc.rets) < MaxRunOps
  /\ a \in AnswersTo(TcOp.s)
  /\ tc' = [TcDone(Res(a, "", <<>>)) EXCEPT !.outs = Append(@, TcOp.s)]
  /\ UNCHANGED <<user, db, inCap, outCap, sent, readers, nSent, nLoop, nAsk,
                 inClosed, outLog, outRecvd, lpc, inv, args, rets, askPhase,
                 askLog, bailCount, dbTasks, status, sx, ux, sc, fx>>

TcQuery ==
  /\ TcPending
  /\ TcOp.k = "query"
  /\ \E ok \in BOOLEAN :
       tc' = TcDone(IF ~ok THEN Res("", DBErr, <<>>)
                    ELSE IF TcOp.s = "tasks" THEN Res("", "", tc.stored)
                    ELSE NoRes)
  /\ UNCHANGED <<user, db, inCap, outCap, sent, readers, nSent, nLoop, nAsk,
                 inClosed, outLog, outRecvd, lpc, inv, args, rets, askPhase,
                 askLog, bailCount, dbTasks, status, sx, ux, sc, fx>>

TcSave ==
  /\ TcPending
  /\ TcOp.k = "save"
  /\ \E ok \in BOOLEAN :
       tc' = [TcDone(IF ok THEN NoRes ELSE Res("", DBErr, <<>>)) EXCEPT
                !.stored = IF ok THEN Append(@, TcOp.t) ELSE @]
  /\ UNCHANGED <<user, db, inCap, outCap, sent, readers, nSent, nLoop, nAsk,
                 inClosed, outLog, outRecvd, lpc, inv, args, rets, askPhase,
                 askLog, bailCount, dbTasks, status, sx, ux, sc, fx>>

\* DB.Delete of a task.
TcDelete ==
  /\ TcPending
  /\ TcOp.k = "delete"
  /\ \E ok \in BOOLEAN :
       tc' = [TcDone(IF ok THEN NoRes ELSE Res("", DBErr, <<>>)) EXCEPT
                !.stored = IF ok THEN SelectSeq(@, LAMBDA t : t # TcOp.t) ELSE @]
  /\ UNCHANGED <<user, db, inCap, outCap, sent, readers, nSent, nLoop, nAsk,
                 inClosed, outLog, outRecvd, lpc, inv, args, rets, askPhase,
                 askLog, bailCount, dbTasks, status, sx, ux, sc, fx>>

\* Ask on the cli.Ui fails.
TcAskFails ==
  /\ TcPending
  /\ TcOp.k = "ask"
  /\ tc' = [TcDone(Res("", TimeoutErr, <<>>)) EXCEPT !.outs = Append(@, TcOp.s)]
  /\ UNCHANGED <<user, db, inCap, outCap, sent, readers, nSent, nLoop, nAsk,
                 inClosed, outLog, outRecvd, lpc, inv, args, rets, askPhase,
                 askLog, bailCount, dbTasks, status, sx, ux, sc, fx>>

\* Run returns.
TcReturn ==
  /\ tc.on
  /\ ~tc.done
  /\ ~TcCur.ctx.blocked
  /\ tc' = [tc EXCEPT !.done = TRUE, !.status = TcCur.status]
  /\ UNCHANGED <<user, db, inCap, outCap, sent, readers, nSent, nLoop, nAsk,
                 inClosed, outLog, outRecvd, lpc, inv, args, rets, askPhase,
                 askLog, bailCount, dbTasks, status, sx, ux, sc, fx>>

NextRun ==
  \/ TcOut
  \/ \E a \in RunAnswers : TcAsk(a)
  \/ TcQuery
  \/ TcAskFails
  \/ TcSave
  \/ TcDelete
  \/ TcReturn

SpecRun == InitRun /\ [][NextRun]_vars

(***************************************************************************)
(* The help scenario: a session with a user and a database to which the    *)
(* transport sends the lines of HelpScript, in order.                      *)
(***************************************************************************)
TransportHelpScript ==
  /\ ~inClosed
  /\ nSent < Len(HelpScript)
  /\ Len(sent) - nRead <= inCap
  /\ sent' = Append(sent, HelpScript[nSent + 1])
  /\ nSent' = nSent + 1
  /\ UNCHANGED <<user, db, inCap, outCap, readers, nLoop, nAsk, inClosed,
                 outLog, outRecvd, lpc, inv, args, rets, askPhase, askLog,
                 bailCount, dbTasks, status, sx, ux, sc, tc, fx>>

NextHelp ==
  \/ TransportHelpScript
  \/ TransportClose
  \/ TransportRecv
  \/ Start
  \/ LoopRecv
  \/ LoopEnd
  \/ CmdReturn
  \/ OpOut
  \/ DbQuery

SpecHelp == InitTodo /\ [][NextHelp]_vars

(***************************************************************************)
(* A validating prompt loop, intInput or boolInput, on a TextUI whose      *)
(* output channel is unbuffered.  fx is                                    *)
(*   f        the helper                                                   *)
(*   ui       the TextUI inside the running Ask (as in AskOn)              *)
(*   inq      the lines put on the input channel; closed: it is closed     *)
(*   stalled  the transport has stopped receiving from the output channel  *)
(*   pc       position of the helper: "ask" (inside ui.Ask), "invalid"     *)
(*            (sending the message about the invalid input) or "ret"       *)
(*   sends    messages the helper has sent, counted up to MaxSends         *)
(***************************************************************************)
PromptLines == {"1", "y"}

PromptText(f) ==
  IF f = "intInput" THEN "Which number? [integer]:" ELSE "Goal? [boolean]:"

\* Whether the loop of the helper accepts the input: strconv.ParseInt, or
\* "yes", "no" and strconv.ParseBool.
ValidInput(f, input) ==
  IF f = "intInput" THEN ParseIntOk(input)
  ELSE input \in {"yes", "no", "1", "t", "T", "TRUE", "true", "True",
                  "0", "f", "F", "FALSE", "false", "False"}

Counted(n) == IF n < MaxSends THEN n + 1 ELSE n

InitPrompt ==
  /\ user = [nil |-> FALSE, Id |-> "u1"]
  /\ db = TRUE
  /\ InitSession
  /\ inCap = 0
  /\ outCap = 0
  /\ dbTasks = <<>>
  /\ sx = NoSx
  /\ ux = NoUx
  /\ sc = NoSc
  /\ tc = NoTc
  /\ fx \in {[on |-> TRUE, f |-> f, ui |-> NewUi, inq |-> <<>>,
              closed |-> FALSE, stalled |-> FALSE, pc |-> "ask",
              sends |-> 0] : f \in {"intInput", "boolInput"}}

PxLine(l) ==
  /\ fx.on
  /\ fx.f \in {"intInput", "boolInput"}
  /\ ~fx.closed
  /\ Len(fx.inq) < MaxPromptLines
  /\ fx' = [fx EXCEPT !.inq = Append(@, l)]
  /\ UNCHANGED <<user, db, inCap, outCap, sent, readers, nSent, nLoop, nAsk,
                 inClosed, outLog, outRecvd, lpc, inv, args, rets, askPhase,
                 askLog, bailCount, dbTasks, status, sx, ux, sc, tc>>

PxClose ==
  /\ fx.on
  /\ fx.f \in {"intInput", "boolInput"}
  /\ ~fx.closed
  /\ fx' = [fx EXCEPT !.closed = TRUE]
  /\ UNCHANGED <<user, db, inCap, outCap, sent, readers, nSent, nLoop, nAsk,
                 inClosed, outLog, outRecvd, lpc, inv, args, rets, askPhase,
                 askLog, bailCount, dbTasks, status, sx, ux, sc, tc>>

\* The transport stops receiving from the output channel.
PxStall ==
  /\ fx.on
  /\ fx.f \in {"intInput", "boolInput"}
  /\ ~fx.stalled
  /\ fx' = [fx EXCEPT !.stalled = TRUE]
  /\ UNCHANGED <<user, db, inCap, outCap, sent, readers, nSent, nLoop, nAsk,
                 inClosed, outLog, outRecvd, lpc, inv, args, rets, askPhase,
                 askLog, bailCount, dbTasks, status, sx, ux, sc, tc>>

\* The transport receives a message: the prompt or the "timeout" of the
\* running Ask, or the message about the invalid input, after which the
\* loop calls Ask again.
PxTake ==
  /\ fx.on
  /\ fx.f \in {"intInput", "boolInput"}
  /\ ~fx.stalled
  /\ \/ /\ fx.pc = "ask"
        /\ fx.ui.pc \in {"call", "tsend"}
        /\ fx' = [fx EXCEPT !.ui = AskOn(fx.ui, PromptText(fx.f), fx.inq,
                                         fx.closed, "take"),
                            !.sends = Counted(@)]
     \/ /\ fx.pc = "invalid"
        /\ fx' = [fx EXCEPT !.pc = "ask",
                            !.ui = [NewUi EXCEPT !.nread = fx.ui.nread],
                            !.sends = Counted(@)]
  /\ UNCHANGED <<user, db, inCap, outCap, sent, readers, nSent, nLoop, nAsk,
                 inClosed, outLog, outRecvd, lpc, inv, args, rets, askPhase,
                 askLog, bailCount, dbTasks, status, sx, ux, sc, tc>>

\* The select of the running Ask receives a line, or the closure.
PxSelect ==
  /\ fx.on
  /\ fx.f \in {"intInput", "boolInput"}
  /\ fx.pc = "ask"
  /\ fx' = [fx EXCEPT !.ui = AskOn(fx.ui, PromptText(fx.f), fx.inq,
                                   fx.closed, "select")]
  /\ fx' # fx
  /\ UNCHANGED <<user, db, inCap, outCap, sent, readers, nSent, nLoop, nAsk,
                 inClosed, outLog, outRecvd, lpc, inv, args, rets, askPhase,
                 askLog, bailCount, dbTasks, status, sx, ux, sc, tc>>

\* The timer of the running Ask fires.
PxTimer ==
  /\ fx.on
  /\ fx.f \in {"intInput", "boolInput"}
  /\ fx.pc = "ask"
  /\ fx' = [fx EXCEPT !.ui = AskOn(fx.ui, PromptText(fx.f), fx.inq,
                                   fx.closed, "timer")]
  /\ fx' # fx
  /\ UNCHANGED <<user, db, inCap, outCap, sent, readers, nSent, nLoop, nAsk,
                 inClosed, outLog, outRecvd, lpc, inv, args, rets, askPhase,
                 askLog, bailCount, dbTasks, status, sx, ux, sc, tc>>

\* Ask has returned: the helper returns the error, returns the valid
\* input, or goes on to tell that the input is invalid.
PxReturn ==
  /\ fx.on
  /\ fx.f \in {"intInput", "boolInput"}
  /\ fx.pc = "ask"
  /\ fx.ui.pc = "ret"
  /\ fx' = [fx EXCEPT !.pc = IF fx.ui.err # "" THEN "ret"
                             ELSE IF ValidInput(fx.f, fx.ui.v) THEN "ret"
                             ELSE "invalid"]
  /\ UNCHANGED <<user, db, inCap, outCap, sent, readers, nSent, nLoop, nAsk,
                 inClosed, outLog, outRecvd, lpc, inv, args, rets, askPhase,
                 askLog, bailCount, dbTasks, status, sx, ux, sc, tc>>

NextPrompt ==
  \/ \E l \in PromptLines : PxLine(l)
  \/ PxClose
  \/ PxStall
  \/ PxTake
  \/ PxSelect
  \/ PxTimer
  \/ PxReturn

\* The goroutine of the helper runs whenever it can, and the transport
\* that has not stopped receiving goes on receiving.
SpecPrompt ==
  /\ InitPrompt
  /\ [][NextPrompt]_vars
  /\ WF_vars(PxTake)
  /\ WF_vars(PxSelect)
  /\ WF_vars(PxTimer)
  /\ WF_vars(PxReturn)
(***************************************************************************)
(* Properties.                                                             *)
(***************************************************************************)
Asks == 1..Len(askLog)

AllReplies(i) == \A j \in 1..i : askLog[j].how = "reply"

SomeTimeout == \E i \in Asks : askLog[i].how = "timeout"

\* C1: within one invocation, as long as every Ask so far got a reply, the
\* i-th Ask returned the i-th line the transport supplied after the line that
\* started the invocation.
AskOrder ==
  \A i \in Asks : AllReplies(i) => askLog[i].v = sent[1 + i]

AskOrderWitness ==
  /\ Len(askLog) >= 3
  /\ AllReplies(3)
  /\ askLog[1].v = "1"
  /\ askLog[2].v = "y"

\* C2: at most one receiver is active on the input channel: while s.run is
\* in progress Start is not at its receive, an Ask only runs inside an
\* invocation, and every line taken off the channel has one reader.
Receivers ==
  (IF lpc = "recv" THEN {"loop"} ELSE {})
    \cup (IF askPhase = "select" THEN {"ask"} ELSE {})

OneReceiver ==
  /\ Cardinality(Receivers) <= 1
  /\ inv # "none" => lpc = "run"
  /\ askPhase # "idle" => inv = "todo"
  /\ nRead <= Len(sent)
  /\ nLoop + nAsk + (Len(sent) - nRead) = nSent

OneReceiverWitness ==
  /\ askPhase = "select"
  /\ InAvail
  /\ lpc = "run"

\* C3: a session without a user calls bail() at most once and never
\* receives from the input channel.
NoAccountNoRead == user.nil => (bailCount <= 1 /\ nLoop = 0)

\* C4: an Ask that timed out returned the timeout error, consumed no line,
\* and between its call and its return exactly two messages were sent: its
\* prompt, once, and then the literal "timeout".
TimeoutOnce ==
  \A i \in Asks : askLog[i].how = "timeout" =>
    /\ askLog[i].err = TimeoutErr
    /\ askLog[i].end = askLog[i].at + 2
    /\ Len(outLog) >= askLog[i].end
    /\ outLog[askLog[i].at + 1] = askLog[i].prompt
    /\ outLog[askLog[i].at + 2] = "timeout"
    /\ askLog[i].rdEnd = askLog[i].rd

TimeoutOnceWitness == SomeTimeout

\* C5 as claimed: every Ask that returned either returned a reply without
\* error and consumed exactly one line, or returned the timeout error and
\* consumed none.
AskTwoOutcomes ==
  \A i \in Asks : askLog[i].how # "pending" =>
    \/ askLog[i].err = "" /\ askLog[i].rdEnd = askLog[i].rd + 1
    \/ askLog[i].err = TimeoutErr /\ askLog[i].rdEnd = askLog[i].rd

\* C5 as amended: every Ask that returned ended in exactly one of three
\* ways: a reply without error after consuming exactly one line (the one it
\* returns); the timeout error after consuming none; or, the input channel
\* being closed, an empty answer without error after consuming none.
AskThreeOutcomes ==
  \A i \in Asks : askLog[i].how # "pending" =>
    \/ /\ askLog[i].err = ""
       /\ askLog[i].rdEnd = askLog[i].rd + 1
       /\ askLog[i].v = sent[askLog[i].rdEnd]
    \/ /\ askLog[i].err = TimeoutErr
       /\ askLog[i].rdEnd = askLog[i].rd
       /\ askLog[i].v = ""
    \/ /\ askLog[i].err = ""
       /\ askLog[i].rdEnd = askLog[i].rd
       /\ askLog[i].v = ""
       /\ inClosed

AskThreeOutcomesWitness ==
  /\ Len(askLog) >= 2
  /\ askLog[1].how = "reply"
  /\ askLog[2].how = "closed"

\* C6: whatever status an invocation returned, Start is back at its receive
\* (or has returned because the channel is closed and drained).
LoopContinues ==
  (inv = "none" /\ status # -1) =>
    \/ lpc = "recv"
    \/ lpc = "done" /\ inClosed /\ ~InAvail

\* A line was received and dispatched after an invocation that failed.
LoopContinuesWitness ==
  /\ status = failure
  /\ askLog = <<>>
  /\ inv = "todo"
  /\ Len(rets) >= 1
  /\ nLoop >= 2

\* C7: with a user, Start returns only from its receive and only when the
\* input channel is closed and drained, and that step sends nothing, calls
\* no bail() and raises no panic; and whenever Start is at its receive with
\* the channel closed and drained, returning is what it does next.
EndsOnlyOnClose ==
  (lpc' = "done" /\ lpc # "done" /\ ~user.nil) =>
    /\ lpc = "recv"
    /\ inv = "none"
    /\ inClosed
    /\ ~InAvail
    /\ outLog' = outLog
    /\ bailCount' = bailCount
    /\ bailCount = 0

EndsOnClose ==
  (~user.nil /\ lpc = "recv" /\ inClosed /\ ~InAvail) =>
    (ENABLED LoopEnd /\ ~ENABLED LoopRecv)

SessionEndsOnClose == [][EndsOnlyOnClose]_vars /\ []EndsOnClose

SessionEndsOnCloseWitness ==
  /\ ~user.nil
  /\ lpc = "done"
  /\ nLoop >= 1

\* The prompts of promptNewTask when no deadline and no prerequisite is
\* asked for: name, has-deadline, has-prerequisites.
NewTaskPrompts ==
  <<"Name: [string]:",
    "Does it have a deadline? [y to confirm]",
    "Does it have any prerequisites? [y to confirm]">>

TodoNewAsks ==
  /\ nLoop = 1 =>
       /\ sent[1] = Script[1]
       /\ readers = <<"loop">>
       /\ askLog = <<>>
       /\ nAsk = 0
       /\ inv # "none" => (inv = "todo" /\ args = <<"todo", "list">>)
  /\ nLoop = 2 =>
       /\ sent[1] = Script[2]
       /\ readers[1] = "loop"
       /\ inv # "none" => (inv = "todo" /\ args = <<"todo", "new">>)
       /\ Len(askLog) <= 3
       /\ \A i \in Asks :
            /\ askLog[i].prompt = NewTaskPrompts[i]
            /\ askLog[i].how = "reply" => askLog[i].v = Script[2 + i]
       /\ (Len(askLog) = 3 /\ AllReplies(3)) =>
            /\ nSent = Len(Script)
            /\ nAsk = 3
            /\ sent = SubSeq(Script, 2, 5)
            /\ readers = <<"loop", "ask", "ask", "ask">>

\* The range loop receives a line after "todo new" only when the "todo new"
\* invocation failed before its third Ask returned: one of its Asks timed
\* out, or it made no Ask at all because a query of init failed.
TodoNewLoopStep ==
  (nLoop = 2 /\ nLoop' = 3) =>
    /\ inv = "none"
    /\ status = failure
    /\ SomeTimeout \/ askLog = <<>>

OneMessagePerCall ==
  ux.on =>
    /\ ux.recvd \o ux.buf = [i \in 1..ux.returned |-> ux.calls[i].s]
    /\ ux.pc = "idle" => (ux.returned = Len(ux.calls) /\ ux.pend = <<>>)
    /\ ux.pc = "send" =>
         /\ ux.returned = Len(ux.calls) - 1
         /\ ux.pend = <<ux.calls[Len(ux.calls)].s>>
    /\ ux.nread = 0

OneMessagePerCallWitness ==
  /\ ux.on
  /\ ux.returned = 4
  /\ {ux.calls[i].m : i \in 1..4} = UiMethods
  /\ Len(ux.inq) = 1

\* C12 as claimed: a call of Output, Info, Warn or Error that is at its
\* send can complete it without the transport receiving anything.
NonBlockingSend ==
  (ux.on /\ ux.pc = "send") => Len(ux.buf) < ux.cap

\* A call returns in a step in which either the output channel had free
\* buffer capacity and the transport received nothing, or the channel is
\* unbuffered and the transport received the message in that very step.
ReturnsWhenPlaced ==
  (ux.on /\ ux'.returned = ux.returned + 1) =>
    \/ /\ Len(ux.buf) < ux.cap
       /\ ux'.recvd = ux.recvd
       /\ ux'.buf = Append(ux.buf, ux.calls[Len(ux.calls)].s)
    \/ /\ ux.cap = 0
       /\ ux'.recvd = Append(ux.recvd, ux.calls[Len(ux.calls)].s)

\* A call at its send on a full buffered channel cannot proceed; the
\* transport's receive is what lets it.
WaitsWhenFull ==
  (ux.on /\ ux.pc = "send" /\ ux.cap > 0 /\ Len(ux.buf) = ux.cap) =>
    (~ENABLED UxSend /\ ENABLED UxTake)

\* C12 as amended: Output, Info, Warn and Error are plain channel sends: a
\* call returns without waiting for the transport only when the output
\* channel has free buffer capacity; on an unbuffered or full channel it
\* returns only when the transport receives from the channel.
SendWaitsForRoom ==
  /\ [][ReturnsWhenPlaced]_vars
  /\ []WaitsWhenFull
  /\ [](ux.on => Len(ux.buf) <= ux.cap)

SendWaitsForRoomWitness ==
  /\ ux.on
  /\ ux.pc = "send"
  /\ ux.cap = 1
  /\ Len(ux.buf) = 1
  /\ ux.returned >= 1

(***************************************************************************)
(* The stream command.                                                     *)
(***************************************************************************)
\* The lines that render the change of index k, and the error lines.
LinesOf(k) == SelectSeq(sc.out, LAMBDA l : l.ev = k)

ErrorLines == SelectSeq(sc.out, LAMBDA l : l.w = "Error")

LinesSaying(s) == SelectSeq(sc.out, LAMBDA l : l.s = s)

\* The line of an event whose lookups succeed.
EventText(e) == EventLine(TagString(e.tags), e.name, LocString(e.loc))

\* C13 as stated: whichever precondition fails first, Run writes one error
\* line, returns failure and has not subscribed to the change feed.
PreconditionErrorLine ==
  (sc.on /\ sc.pc = "done" /\ ~sc.subscribed)
    => /\ sc.status = failure
       /\ Len(sc.out) = 1
       /\ sc.out[1].w = "Error"

\* C13, amended: the preconditions are checked in the order adapter, user
\* id, database; the first that fails makes Run return failure without
\* subscribing to the change feed, after one error line when the user id or
\* the database is missing and after no line when the adapter is missing.
PreconditionOrder ==
  (sc.on /\ sc.pc # "start")
    => IF ~sc.ui
       THEN sc.pc = "done" /\ sc.status = failure /\ ~sc.subscribed
            /\ sc.feed = <<>> /\ sc.out = <<>>
       ELSE IF sc.userID = ""
       THEN sc.pc = "done" /\ sc.status = failure /\ ~sc.subscribed
            /\ sc.feed = <<>>
            /\ sc.out = <<[w |-> "Error", ev |-> 0,
                           s |-> "[elos stream] Error: no user id"]>>
       ELSE IF ~sc.db
       THEN sc.pc = "done" /\ sc.status = failure /\ ~sc.subscribed
            /\ sc.feed = <<>>
            /\ sc.out = <<[w |-> "Error", ev |-> 0,
                           s |-> "[elos stream] Error: no db"]>>
       ELSE sc.subscribed

PreconditionOrderWitness ==
  /\ sc.on
  /\ sc.ui /\ sc.userID = "" /\ ~sc.db
  /\ sc.pc = "done"
  /\ sc.status = failure
  /\ Len(sc.out) = 1

\* The change of index k is the only update of an event on the feed.
OnlyMatch(k) ==
  \A j \in 1..Len(sc.feed) :
    (sc.feed[j].ck = "Update" /\ sc.feed[j].rk = "Event") <=> j = k

\* What C14 promises of the only matching change, of index k.
RenderedAlone(k) ==
  /\ Len(LinesOf(k)) = IF sc.feed[k].note.has THEN 2 ELSE 1
  /\ LinesOf(k)[1].s = EventText(sc.feed[k])
  /\ \A j \in 1..Len(sc.feed) : j # k => LinesOf(j) = <<>>
  /\ ErrorLines = <<>>

LinesInFeedOrder ==
  sc.on
    => /\ \A i, j \in 1..Len(sc.out) :
            (i < j /\ sc.out[i].ev # 0 /\ sc.out[j].ev # 0)
              => sc.out[i].ev <= sc.out[j].ev
       /\ \A k \in 1..Len(sc.feed) :
            /\ Len(LinesOf(k)) <= 2
            /\ Len(LinesOf(k)) >= 1 => LinesOf(k)[1].s = EventText(sc.feed[k])
            /\ Len(LinesOf(k)) = 2
                 => LinesOf(k)[2].s = NoteLine(sc.feed[k].note.text)

\* A receive takes one change, the oldest not yet received, and only when
\* the change before it has been dealt with.
OneAtATime ==
  (sc.on /\ sc'.nrecv # sc.nrecv)
    => /\ sc'.nrecv = sc.nrecv + 1
       /\ sc.pc = "select"
       /\ sc.cur = 0
       /\ sc'.cur \in {0, sc'.nrecv}
       /\ sc'.out = sc.out

\* C15: changes are consumed one at a time in feed order; the lines of
\* rendered changes appear in feed order, all lines of one change (event
\* line, then note line) before any line of a later change.
ConsumedInFeedOrder == []LinesInFeedOrder /\ [][OneAtATime]_vars

ConsumedInFeedOrderWitness ==
  /\ sc.on
  /\ sc.nrecv = 3
  /\ sc.cur = 0
  /\ Len(sc.out) = 4
  /\ sc.out[1].ev = 1 /\ sc.out[2].ev = 1
  /\ sc.out[3].ev = 2
  /\ sc.out[4].ev = 3

\* Heartbeats so far in a quiet period: one for each 5 seconds of it, the
\* one of a timer that has just fired being still to write.
HeartbeatCount ==
  sc.on
    => /\ sc.idle <= 5
       /\ sc.idle = 5 <=> sc.pc = "beat"
       /\ sc.beats = (sc.quiet \div 5) - (IF sc.pc = "beat" THEN 1 ELSE 0)

\* A heartbeat is one line "5 second heartbeat", written when the timer has
\* run 5 seconds, and the timer starts again from 0.
HeartbeatStep ==
  /\ (sc.on /\ sc'.beats = sc.beats + 1)
       => /\ sc.idle = 5
          /\ sc'.idle = 0
          /\ sc'.out = Append(sc.out, [w |-> "Output", ev |-> 0,
                                       s |-> "5 second heartbeat"])
  /\ (sc.on /\ Len(LinesSaying("5 second heartbeat"))' #
               Len(LinesSaying("5 second heartbeat")))
       => sc'.beats = sc.beats + 1

\* C16: while Run waits, every 5 seconds without a change give exactly one
\* line "5 second heartbeat" and a timer armed anew.
HeartbeatEveryFive == []HeartbeatCount /\ [][HeartbeatStep]_vars

HeartbeatEveryFiveWitness ==
  /\ sc.on
  /\ sc.nrecv >= 1
  /\ sc.quiet = 10
  /\ sc.beats = 2
  /\ sc.pc = "select"
  /\ Len(LinesSaying("5 second heartbeat")) = 2

\* The closure line is written once, as the last line, with success.
ClosedLineOnce ==
  sc.on
    => /\ Len(LinesSaying("Connection closed by server")) <= 1
       /\ Len(LinesSaying("Connection closed by server")) = 1
            <=> (sc.pc = "done" /\ sc.status = success)
       /\ Len(LinesSaying("Connection closed by server")) = 1
            => sc.out[Len(sc.out)].s = "Connection closed by server"
       /\ (sc.pc = "select" /\ sc.closed /\ sc.nrecv = Len(sc.feed))
            => (ENABLED StreamClosed /\ ~ENABLED StreamTick)

\* Nothing is written once Run has returned.
SilentWhenDone ==
  (sc.on /\ sc.pc = "done")
    => (sc'.out = sc.out /\ sc'.pc = "done" /\ sc'.status = sc.status)

\* C17: on a closed feed Run writes "Connection closed by server" exactly
\* once, returns success and writes nothing afterwards, no heartbeat either.
ClosedOnce == []ClosedLineOnce /\ [][SilentWhenDone]_vars

ClosedOnceWitness ==
  /\ sc.on
  /\ sc.closed
  /\ sc.pc = "done"
  /\ sc.status = success
  /\ sc.nrecv = 2
  /\ Len(LinesSaying("5 second heartbeat")) = 1
  /\ Len(LinesSaying("Connection closed by server")) = 1

\* C18 as stated: whenever Run has returned failure after a lookup of a
\* matched event failed, exactly one error line has been written.
FailureHasErrorLine ==
  (sc.on /\ sc.subscribed /\ sc.pc = "done" /\ sc.status = failure)
    => Len(ErrorLines) = 1

\* An empty link from the location lookup: the event's line is written
\* without location text and Run goes on to the note.  An empty link from
\* the note lookup: no line is written and Run goes back to the select.
EmptyLinkStep ==
  /\ (sc.on /\ sc.pc = "loc" /\ sc'.pc # "loc" /\ sc'.err = "empty link")
       => /\ sc'.out = Append(sc.out,
                              [w |-> "Output", ev |-> sc.cur,
                               s |-> sc.tagString \o sc.feed[sc.cur].name \o " "])
          /\ sc'.pc = "note"
          /\ sc'.status = -1
  /\ (sc.on /\ sc.pc = "note" /\ sc'.pc # "note" /\ sc'.err = "empty link")
       => /\ sc'.out = sc.out
          /\ sc'.pc = "select"
          /\ sc'.status = -1

\* A lookup that finds an empty link is not a failed one, and the select
\* that follows can take the next signal.
EmptyLinkGoesOn ==
  sc.on
    => /\ (sc.status = failure /\ sc.subscribed) => sc.err # "empty link"
       /\ sc.subscribed => ErrorLines = <<>>
       /\ (sc.pc = "select" /\ sc.nrecv < Len(sc.feed)) => ENABLED StreamRecv

\* C19: an empty link from the location or the note lookup of a matched
\* event is no error: the event's line is written without location text
\* and without a note line, no error line is written and Run keeps running.
EmptyLinkNotError == []EmptyLinkGoesOn /\ [][EmptyLinkStep]_vars

EmptyLinkNotErrorWitness ==
  /\ sc.on
  /\ Len(sc.feed) = 2
  /\ sc.feed[1].name = "review"
  /\ sc.feed[2].name = "standup" /\ sc.feed[2].ck = "Update"
  /\ sc.nrecv = 2
  /\ sc.pc = "select"
  /\ sc.err = "empty link"
  /\ Len(LinesOf(1)) = 2
  /\ Len(LinesOf(2)) = 1
  /\ sc.status = -1

\* C20: an update of an event with no tags, no location and no note gives
\* exactly one line: a space, the event's name, a space; no second line.
PlainEventLine ==
  sc.on
    => \A k \in 1..Len(sc.feed) :
         ( /\ sc.feed[k].ck = "Update" /\ sc.feed[k].rk = "Event"
           /\ sc.feed[k].tags = <<>>
           /\ ~sc.feed[k].loc.has /\ ~sc.feed[k].note.has
           /\ k <= sc.nrecv /\ sc.cur # k )
           => LinesOf(k) = <<[w |-> "Output", ev |-> k,
                              s |-> " " \o sc.feed[k].name \o " "]>>

PlainEventLineWitness ==
  /\ sc.on
  /\ Len(sc.feed) = 1
  /\ sc.feed[1].ck = "Update" /\ sc.feed[1].rk = "Event"
  /\ sc.feed[1].name = "event name"
  /\ sc.nrecv = 1
  /\ sc.cur = 0
  /\ sc.pc = "select"
  /\ sc.out = <<[w |-> "Output", ev |-> 1, s |-> " event name "]>>

\* The badges of tags, each after the text lead.
RECURSIVE Badges(_, _)
Badges(tags, lead) ==
  IF tags = <<>> THEN ""
  ELSE lead \o "[" \o Head(tags) \o "]" \o Badges(Tail(tags), lead)

\* C21 as stated: the tag part of a matched event with tags is its badges
\* with nothing between or before them, then ": "; with no tags it is a
\* single space.
TagPartJoined ==
  (sc.on /\ sc.pc \in {"loc", "note"})
    => sc.tagString = IF sc.feed[sc.cur].tags = <<>> THEN " "
                      ELSE Badges(sc.feed[sc.cur].tags, "") \o ": "

\* C21, amended: the tag part of a matched event with tags is its badges,
\* each with one space before it, then ": "; with no tags it is a single
\* space.  The event's line begins with the tag part.
TagPartSpaced ==
  sc.on
    => /\ sc.pc \in {"loc", "note"}
            => sc.tagString = IF sc.feed[sc.cur].tags = <<>> THEN " "
                              ELSE Badges(sc.feed[sc.cur].tags, " ") \o ": "
       /\ \A i \in 1..Len(sc.out) :
            (sc.out[i].ev # 0 /\ sc.feed[sc.out[i].ev].name = "review")
              => sc.out[i].s \in {" [work] [home]: review ",
                                  "\tNote: bring slides"}
       /\ \A i \in 1..Len(sc.out) :
            (sc.out[i].ev # 0 /\ sc.feed[sc.out[i].ev].name = "standup")
              => sc.out[i].s =
                   " [work]: standup (lat: 1.000000, lon: -2.000000, alt: 0.000000)"

TagPartSpacedWitness ==
  /\ sc.on
  /\ sc.pc = "note"
  /\ sc.tagString = " [work] [home]: "
  /\ Len(sc.out) = 2
  /\ sc.out[1].s = " [work]: standup (lat: 1.000000, lon: -2.000000, alt: 0.000000)"
  /\ sc.out[2].s = " [work] [home]: review "

\* The note lookup of a matched event whose note is found writes one line,
\* a tab, "Note: " and the note's text, straight after the event's line;
\* with no note it writes nothing.
NoteStep ==
  (sc.on /\ sc.pc = "note" /\ sc'.pc # "note")
    => IF sc.feed[sc.cur].note.has /\ sc'.status # failure
       THEN /\ sc'.out = Append(sc.out,
                                [w |-> "Output", ev |-> sc.cur,
                                 s |-> "\tNote: " \o sc.feed[sc.cur].note.text])
            /\ sc.out[Len(sc.out)].ev = sc.cur
            /\ sc.out[Len(sc.out)].s = EventText(sc.feed[sc.cur])
       ELSE sc'.out = sc.out

\* A matched event that has been dealt with has its line, followed at once
\* by its note's line if it has a note, and no other line.
NoteAfterEvent ==
  sc.on
    => \A k \in 1..Len(sc.feed) :
         (k <= sc.nrecv /\ sc.cur # k /\ LinesOf(k) # <<>>)
           => \E i \in 1..Len(sc.out) :
                /\ sc.out[i].ev = k
                /\ sc.out[i].s = EventText(sc.feed[k])
                /\ IF sc.feed[k].note.has
                   THEN /\ i < Len(sc.out)
                        /\ sc.out[i + 1] =
                             [w |-> "Output", ev |-> k,
                              s |-> "\tNote: " \o sc.feed[k].note.text]
                        /\ Len(LinesOf(k)) = 2
                   ELSE Len(LinesOf(k)) = 1

\* C22: a matched event with a note gets exactly one more line, a tab and
\* "Note: " and the note's text, immediately after its line; a matched
\* event with no note gets no such line.
NoteLineFollows == []NoteAfterEvent /\ [][NoteStep]_vars

NoteLineFollowsWitness ==
  /\ sc.on
  /\ sc.nrecv = 2
  /\ sc.cur = 0
  /\ Len(sc.out) = 3
  /\ sc.out[1].s = " event name "
  /\ sc.out[2].s = " [work] [home]: review "
  /\ sc.out[3].s = "\tNote: bring slides"

\* Run has returned only on a closed feed or on a failed lookup; until
\* then it has no exit status, and at the select it takes what the feed
\* holds, heartbeats or not.
ReturnsOnlyOnCloseOrFailure ==
  (sc.on /\ sc.subscribed)
    => /\ sc.pc = "done"
            => \/ /\ sc.status = success
                  /\ sc.closed
                  /\ sc.nrecv = Len(sc.feed)
                  /\ sc.out[Len(sc.out)].s = "Connection closed by server"
               \/ /\ sc.status = failure
                  /\ sc.cur # 0
                  /\ sc.err \notin {"", "empty link"}
       /\ sc.pc # "done" => sc.status = -1
       /\ (sc.pc = "select" /\ sc.nrecv < Len(sc.feed)) => ENABLED StreamRecv

\* The heartbeat leads back to the select.
BeatGoesOn ==
  (sc.on /\ sc.pc = "beat" /\ sc'.pc # "beat")
    => (sc'.pc = "select" /\ sc'.status = -1 /\ sc'.nrecv = sc.nrecv)

\* C26: the heartbeat never ends the consumer: once subscribed, Run returns
\* only when the feed is closed or a lookup fails, and after heartbeats it
\* still waits on the feed and renders the next matching event.
HeartbeatNeverCancels == []ReturnsOnlyOnCloseOrFailure /\ [][BeatGoesOn]_vars

HeartbeatNeverCancelsWitness ==
  /\ sc.on
  /\ sc.pc = "select"
  /\ sc.status = -1
  /\ Len(sc.out) = 3
  /\ sc.out[1].s = "5 second heartbeat"
  /\ sc.out[2].s = "5 second heartbeat"
  /\ sc.out[3].s = " event name "

(***************************************************************************)
(* The heartbeat and the changes that are filtered out.                    *)
(***************************************************************************)
Heartbeats == Len(LinesSaying("5 second heartbeat"))

\* Receiving a change, rendered or filtered out, starts the 5 seconds anew.
AnyChangeRearms ==
  (sc.on /\ sc'.nrecv = sc.nrecv + 1)
    => /\ sc'.idle = 0
       /\ sc'.quiet = 0
       /\ Heartbeats' = Heartbeats

\* A heartbeat line is written only when 5 seconds in a row, or a multiple
\* of them, have passed since the last change of any kind.
BeatAfterFiveQuiet ==
  (sc.on /\ Heartbeats' # Heartbeats)
    => /\ sc.quiet >= HeartbeatAfter
       /\ sc.quiet % HeartbeatAfter = 0
       /\ sc.idle = HeartbeatAfter

\* Between two wakeups fewer than 5 seconds have passed unless a heartbeat
\* is about to be written.
QuietBelowFive ==
  sc.on => (sc.idle < HeartbeatAfter \/ sc.pc = "beat")

\* C34: the 5 seconds of the heartbeat start anew at every wakeup, also for
\* a change that is filtered out, so a heartbeat line needs 5 seconds in a
\* row without any change.
HeartbeatNeedsQuiet ==
  /\ []QuietBelowFive
  /\ [][AnyChangeRearms /\ BeatAfterFiveQuiet]_vars

\* Eleven seconds, three filtered changes, and no heartbeat line.
HeartbeatNeedsQuietWitness ==
  /\ sc.on
  /\ sc.seconds = 11
  /\ sc.nrecv = 3
  /\ sc.out = <<>>
  /\ sc.pc = "select"
  /\ sc.quiet = 2

(***************************************************************************)
(* The argument vector and removeTask.                                     *)
(***************************************************************************)
\* The non-empty tokens of a line between its white space.
RECURSIVE FieldsAcc(_, _, _)
FieldsAcc(cs, cur, acc) ==
  IF cs = <<>> THEN (IF cur = "" THEN acc ELSE Append(acc, cur))
  ELSE IF Head(cs) \in {" ", "\t"}
       THEN FieldsAcc(Tail(cs), "", IF cur = "" THEN acc ELSE Append(acc, cur))
       ELSE FieldsAcc(Tail(cs), cur \o Head(cs), acc)

\* C23 as stated: the argument vector of a line is exactly the sequence of
\* its non-empty whitespace-separated tokens.
SplitOnWhitespace ==
  (fx.on /\ fx.f = "Split" /\ fx.done)
    => fx.args = FieldsAcc(fx.cs, "", <<>>)

\* C29 as stated: removeTask(index) leaves the list with exactly the
\* element at index removed, the others kept once and in order.
RemoveTaskRemoves ==
  (fx.on /\ fx.f = "removeTask" /\ fx.done)
    => /\ Len(fx.res) = Len(fx.tasks) - 1
       /\ \A i \in 1..Len(fx.res) :
            fx.res[i] = IF i <= fx.index THEN fx.tasks[i] ELSE fx.tasks[i + 1]

\* C36 as stated: promptSelectTag returns the tag of the entered index when
\* the index is within 0..len(tags)-1, and otherwise warns and returns nil.
SelectTagInRange ==
  (fx.on /\ fx.f = "promptSelectTag" /\ fx.pc = "done" /\ Len(fx.tags) > 0)
    => IF fx.index \in 0..(Len(fx.tags) - 1)
       THEN fx.res = fx.tags[fx.index + 1]
       ELSE fx.res = "nil" /\ Len(fx.outs) = Len(fx.tags) + 1

(***************************************************************************)
(* Prompts on a closed input stream and on a stalled output stream.        *)
(***************************************************************************)
\* C31 as stated: once the input stream is closed, a command waiting in
\* the loop of intInput or boolInput returns (unless the transport has
\* stopped receiving its messages).
ClosedPromptReturns ==
  (fx.on /\ fx.closed) ~> (fx.pc = "ret" \/ fx.stalled)

\* C35 as stated: every Ask returns, even if the transport stops receiving
\* from the output stream.
AskAlwaysReturns == (fx.on /\ fx.pc = "ask") ~> (fx.pc # "ask")

\* C35, amended: every Ask returns, with a reply or with the timeout
\* error, unless the transport stops receiving from the output stream.
AskReturnsWhileReceived ==
  /\ (fx.on /\ fx.pc = "ask") ~> (fx.pc # "ask" \/ fx.stalled)
  /\ [](fx.on /\ fx.pc # "ask"
          => (fx.ui.pc = "ret" /\ fx.ui.err \in {"", "TextUI Ask, timeout"}))

AskReturnsWhileReceivedWitness ==
  /\ fx.on
  /\ fx.pc = "ret"
  /\ ~fx.stalled
  /\ fx.ui.err = "TextUI Ask, timeout"
  /\ fx.ui.out = <<PromptText(fx.f), "timeout">>
  /\ fx.sends = 3

(***************************************************************************)
(* TodoCommand.Run called directly.                                        *)
(***************************************************************************)
\* C27: Run with a subcommand argument on a command that lacks a UI, a user
\* id or a database returns failure, having made no database query, no
\* prompt and no change to the stored tasks.
InadequateInitialization ==
  (tc.on /\ Len(tc.args) >= 1 /\ (~tc.ui \/ tc.user = "" \/ ~tc.db))
    => /\ \A i \in 1..Len(tc.log) : tc.log[i] \notin {"query", "ask", "save"}
       /\ tc.stored = tc.stored0
       /\ tc.done => tc.status = 1
       /\ ~tc.ui => tc.log = <<>>
       /\ Len(tc.log) <= 1
       /\ (~tc.done /\ (Len(tc.log) = 1 \/ ~tc.ui)) => ENABLED TcReturn

InadequateInitializationWitness ==
  /\ tc.on
  /\ tc.args = <<"new">>
  /\ tc.ui /\ tc.user = "" /\ tc.db
  /\ tc.done
  /\ tc.status = 1
  /\ tc.outs = <<"[elos todo] Error: initialization: no user id">>

\* The command that was given "garbage" and whose initialization succeeded
\* has sent the help text and returns success.
HelpOnGarbage ==
  (inv = "todo" /\ args = <<"todo", "garbage">> /\ Len(rets) = 3
     /\ \A i \in 1..3 : rets[i].err = "")
    => /\ ~Cur.ctx.blocked
       /\ Cur.status = 0
       /\ outLog # <<>>
       /\ outLog[Len(outLog)] = HelpText
       /\ ENABLED CmdReturn

\* When the command returns, whatever its status, Start is at its receive.
NextLineAfterReturn ==
  (inv = "todo" /\ inv' = "none")
    => (lpc' = "recv" /\ bailCount' = 0 /\ (InAvail => ENABLED LoopRecv)')

\* C28: a line that names no todo subcommand is not fatal: the initialized
\* TodoCommand sends its help text and returns success, and the loop of
\* Start goes on to receive the next line.
MalformedLineNotFatal ==
  /\ [](HelpOnGarbage /\ lpc \notin {"panic", "bail"})
  /\ [][NextLineAfterReturn]_vars

MalformedLineNotFatalWitness ==
  /\ nLoop = 2
  /\ args = <<"todo">>
  /\ status = 0
  /\ inv = "todo"
  /\ rets = <<>>
  /\ outLog = <<HelpText>>

(***************************************************************************)
(* The exit status of Run, the aliases, and the tasks of promptNewTask.    *)
(***************************************************************************)
\* The command after its initialization, replayed over the results so far.
TcInit ==
  init([rets |-> tc.rets, ops |-> <<>>, blocked |-> FALSE, tasks |-> <<>>,
        ui |-> tc.ui, user |-> tc.user, db |-> tc.db])

HandlerOf(name, ctx) ==
  CASE name = "new" -> runNew(ctx)
    [] name = "list" -> runList(ctx)
    [] name = "delete" -> runDelete(ctx)

\* C33 as stated: the status Run returns is the status its handler returns.
RunReturnsHandlerStatus ==
  (tc.on /\ tc.done /\ Len(tc.args) = 1
     /\ tc.args[1] \in {"new", "list", "delete"}
     /\ TcInit.status = success)
    => tc.status = HandlerOf(tc.args[1], TcInit.ctx).status

LongOf(a) ==
  CASE a = "l" -> "list"
    [] a = "n" -> "new"
    [] a = "d" -> "delete"

\* C38 as stated: Run with an alias has done what Run with the long name
\* does: the same operations, in the same order, and the same status.
AliasRunsHandler ==
  (tc.on /\ tc.done /\ Len(tc.args) = 1 /\ tc.args[1] \in {"l", "n", "d"})
    => /\ ~TraceOn(tc.ui, tc.user, tc.db, <<LongOf(tc.args[1])>>, tc.rets).ctx.blocked
       /\ TraceOn(tc.ui, tc.user, tc.db, <<LongOf(tc.args[1])>>, tc.rets).ctx.ops
            = TcCur.ctx.ops
       /\ TraceOn(tc.ui, tc.user, tc.db, <<LongOf(tc.args[1])>>, tc.rets).status
            = tc.status

\* The operations of Run so far (the last one is the one it is in), and
\* the saves among them that succeeded.
TcOps == TcCur.ctx.ops

SavedOk(i) ==
  i \in 1..Len(tc.rets) /\ TcOps[i].k = "save" /\ tc.rets[i].err = ""

Initialized ==
  Len(tc.rets) >= 2 /\ tc.rets[1].err = "" /\ tc.rets[2].err = ""

\* C39: in Run("new"), "Task created" is written exactly after a save that
\* succeeded, c.tasks grows by exactly the tasks saved with success, and a
\* call whose prompt or save failed leaves c.tasks as it was.
TaskCreatedOnSave ==
  (tc.on /\ tc.args = <<"new">>)
    => /\ \A i \in 1..Len(TcOps) :
            (TcOps[i].k = "out" /\ TcOps[i].s = "Task created")
               <=> (i > 1 /\ SavedOk(i - 1))
       /\ Initialized
            => /\ TcCur.ctx.tasks = tc.stored
               /\ Len(TcCur.ctx.tasks) =
                    Len(tc.stored0)
                      + Cardinality({i \in 1..Len(tc.rets) : SavedOk(i)})
       /\ \A i \in 1..Len(tc.rets) :
            (tc.rets[i].err # "" /\ TcOps[i].k \in {"ask", "save"})
               => \A j \in (i + 1)..Len(TcOps) :
                    TcOps[j].k = "out" /\ TcOps[j].s # "Task created"

\* A prerequisite was created and saved, then the save of the task failed.
TaskCreatedOnSaveWitness ==
  /\ tc.on
  /\ tc.args = <<"new">>
  /\ tc.done
  /\ tc.status = failure
  /\ Cardinality({i \in 1..Len(tc.rets) : SavedOk(i)}) = 1
  /\ Len(tc.stored) = Len(tc.stored0) + 1
  /\ \E i \in 1..Len(tc.rets) : TcOps[i].k = "save" /\ tc.rets[i].err # ""

(***************************************************************************)
(* The session: bail, crashes, and an Ask on a closed input stream.        *)
(***************************************************************************)
\* s.bail() is called by the guard of Start and by nothing else.
BailStep ==
  bailCount' # bailCount
    => /\ bailCount' = bailCount + 1
       /\ lpc = "bail"
       /\ user.nil
       /\ nLoop = 0
       /\ inv = "none"

NoCrash == lpc # "panic"

\* An Ask that waits on a closed and drained input channel returns at
\* once: the timer case is not taken.
ClosedAskReady ==
  (askPhase = "select" /\ inClosed /\ Len(sent) = Len(readers)
     /\ Len(rets) < MaxOps)
    => (ENABLED AskClosed /\ ~ENABLED AskTimeout)

\* It returns the empty answer and no error, and sends nothing.
ClosedAskStep ==
  (askPhase = "select" /\ inClosed /\ Len(sent) = Len(readers)
     /\ askPhase' # "select")
    => /\ rets' = Append(rets, [v |-> "", err |-> "", tasks |-> <<>>])
       /\ outLog' = outLog
       /\ readers' = readers
       /\ askPhase' = "idle"

\* C30: an Ask in flight when the input stream is closed returns at once
\* with an empty answer and no error, and sends no "timeout" line.
ClosedAskReturnsEmpty == []ClosedAskReady /\ [][ClosedAskStep]_vars

ClosedAskReturnsEmptyWitness ==
  /\ inClosed
  /\ askLog # <<>>
  /\ askLog[Len(askLog)].how = "closed"
  /\ askLog[Len(askLog)].v = ""
  /\ askLog[Len(askLog)].err = ""
  /\ askPhase = "idle"
  /\ \A i \in 1..Len(outLog) : outLog[i] # "timeout"

(***************************************************************************)
(* Lines that arrive too late for an Ask, or too early.                    *)
(***************************************************************************)
Timeouts == {i \in 1..Len(askLog) : askLog[i].how = "timeout"}

\* The Ask that timed out has consumed no line, and the invocation reads
\* none after it.
LateLineKept ==
  \A i \in Timeouts : askLog[i].rdEnd = askLog[i].rd /\ nRead = askLog[i].rd

\* Once the invocation has returned, a line on the input stream is
\* received by the loop of Start.
LateLineReady ==
  (Timeouts # {} /\ inv = "none" /\ InAvail) => ENABLED LoopRecv

\* The receive after a timeout is the one of the loop: the line is split
\* and run as a new command line.
LateLineStep ==
  (Timeouts # {} /\ readers' # readers)
    => /\ inv = "none"
       /\ lpc = "recv"
       /\ readers' = <<"loop">>
       /\ nLoop' = nLoop + 1
       /\ args' = Split(sent[Len(readers) + 1])
       /\ rets' = <<>>
       /\ inv' \in {"todo", "cli"}
       /\ lpc' = "run"

\* C32: a line that arrives after its Ask has timed out is not consumed by
\* the expired Ask nor by the rest of the invocation; once the invocation
\* has returned the loop of Start receives it and runs it as a command line.
LateReplyDispatched ==
  /\ [](LateLineKept /\ LateLineReady)
  /\ [][LateLineStep]_vars

LateReplyDispatchedWitness ==
  /\ Timeouts # {}
  /\ inv = "none"
  /\ lpc = "recv"
  /\ status = failure
  /\ InAvail
  /\ InHead = "y"

\* While a command runs, the loop of Start does not receive.
EarlyLineNotDispatched == inv # "none" => ~ENABLED LoopRecv

\* An Ask whose prompt has been sent takes the line that is waiting, and
\* its timer does not fire.
EarlyLineReady ==
  (askPhase = "select" /\ InAvail)
    => (ENABLED AskRecv /\ ~ENABLED AskTimeout)

\* A line read while a command runs is read by its Ask and returned as the
\* answer.
EarlyLineStep ==
  (inv # "none" /\ readers' # readers)
    => /\ askPhase = "select"
       /\ readers' = Append(readers, "ask")
       /\ rets' = Append(rets, [v |-> sent[Len(readers) + 1], err |-> "",
                                tasks |-> <<>>])
       /\ nLoop' = nLoop
       /\ args' = args
       /\ inv' = inv

\* C37: a line offered while a command is running and before its next
\* prompt is returned as the answer of that next Ask, and is never
\* dispatched by the loop of Start.
EarlyLineAnswers ==
  /\ [](EarlyLineNotDispatched /\ EarlyLineReady)
  /\ [][EarlyLineStep]_vars

EarlyLineAnswersWitness ==
  /\ Pending
  /\ PendingOp.k = "ask"
  /\ askPhase = "idle"
  /\ rets # <<>>
  /\ InAvail
  /\ InHead = "todo list"
====
